---------------------------- MODULE Spec2Model ----------------------------
(***************************************************************************)
(* A model of micromdm/nanohub: the command-workflow adapter (cmdservice), *)
(* the hub constructor (nanohub.New and its options) and the tally store   *)
(* the adapter reads.                                                      *)
(*                                                                         *)
(* Specifications:                                                         *)
(*   Spec      the cmdservice handlers, one call at a time                 *)
(*   SpecTally concurrent TokenUpdate requests through core + adapter      *)
(*   SpecHub   nanohub.New: options, validation and assembly               *)
(*   SpecDM    the declarative-management adapter (ddmadapter)             *)
(*   SpecEnqueue  the command enqueuer (enqueue)                           *)
(***************************************************************************)
EXTENDS Naturals, Sequences, FiniteSets

VARIABLES
    svc,        \* the CMDService: [maskStartedWorkflow, store]
    tally,      \* the tally store's counter per enrollment ID
    lastCall,   \* the last cmdservice call: request, collaborator calls, result
    pc,         \* SpecTally: position of each concurrent TokenUpdate request
    reqOf,      \* SpecTally: the request each call serves
    loaded,     \* SpecTally: the tally the core service loaded to increment
    result,     \* SpecTally: what the adapter's TokenUpdate did for each call
    config,     \* SpecHub: the config under construction
    authOrder,  \* SpecHub: the order WithMdmSignature/WithCertHeader were applied
    nopts,      \* SpecHub: how many options were applied
    given,      \* SpecHub: the names of the options given to New
    hub,        \* SpecHub: what New returned: [hub, err], or <<>> before the call
    dma,        \* SpecDM: the DMAdapter: [statusStore, statusIDFn]
    dmCall,     \* SpecDM: the last DeclarativeManagement call and what it did
    enq,        \* SpecEnqueue: the Enqueue: [noPush]
    enqCall,    \* SpecEnqueue: the last enqueuer call and what it did
    notify,     \* SpecNotify: concurrent EnqueueDMCommand calls and their IDer
    certauth,   \* SpecCertAuth: the certificate associations and the last request
    run,        \* SpecRunner: GoStartEngineRunner's caller and the runner goroutine
    server,     \* SpecServer: the reference server's flags and its routes
    ctxCall,    \* SpecCtx: the last call into this layer, with the contexts passed on
    seq         \* SpecSeq: TokenUpdates passing through the hub's fan-out in turn

vars == <<svc, tally, lastCall, pc, reqOf, loaded, result,
          config, authOrder, nopts, given, hub, dma, dmCall, enq, enqCall,
          notify, certauth, run, server, ctxCall, seq>>

cmdVars   == <<svc, lastCall>>
tallyVars == <<pc, reqOf, loaded, result>>
hubVars   == <<config, authOrder, nopts, given, hub>>
dmVars    == <<dma, dmCall>>
enqVars   == <<enq, enqCall>>
restVars  == <<notify, certauth, run, server, ctxCall, seq>>

-----------------------------------------------------------------------------
(* Bounds *)

MaxTally == 2      \* the store's counter is capped here
MaxCalls == 2      \* concurrent TokenUpdate requests in SpecTally
MaxOpts  == 5      \* options given to one New call
MaxIDs   == 2      \* enrollment IDs in one enqueuer call
MaxUUIDs == 3      \* identifiers the IDer generates in SpecNotify
MaxRunners == 2    \* GoStartEngineRunner calls in SpecRunner
MaxTokenUpdates == 3   \* TokenUpdate check-ins in one run of SpecSeq

-----------------------------------------------------------------------------
(* Values *)

\* mdm.Request: enrollment ID, request parameters, request context
Requests ==
    { [ID |-> "e1", Params |-> "p1", ctx |-> "ctx1"],
      [ID |-> "e2", Params |-> "p2", ctx |-> "ctx2"] }

IDs == { r.ID : r \in Requests }

\* MessageType tags a check-in may carry; "Bogus" is none nanocmd knows
MessageTypes == {"Authenticate", "TokenUpdate", "CheckOut", "Bogus"}

\* raw bytes: a property list that decodes, or bytes that do not
Raws == {"plist", "garbage"}

\* statuses of a command report
Statuses == {"Idle", "Acknowledged", "Error"}

CommandUUIDs == {"uuid1"}

\* errors are chains, outermost message first; the empty chain is nil
NilErr == <<>>

ErrWorkflowAlreadyStarted == "workflow already started"

\* what the engine may answer to an event
EngineErrs ==
    { NilErr,
      <<ErrWorkflowAlreadyStarted>>,
      <<"start workflow", ErrWorkflowAlreadyStarted>>,
      <<"engine failure">> }

\* errors.Is: err or an error it wraps is target
ErrorsIs(err, target) == \E i \in DOMAIN err : err[i] = target

\* fmt.Errorf("<text>: %w", err)
Errorf(text, err) == <<text>> \o err

NoMsg == [type |-> "none", raw |-> "none", Enrolling |-> FALSE]

-----------------------------------------------------------------------------
(* cmdservice: the NanoCMD adapter *)

\* cmdmdm.NewCheckinFromMessageType: a fresh message of the tagged type, or nil
NewCheckinFromMessageType(messageType) ==
    IF messageType \in {"Authenticate", "TokenUpdate", "CheckOut"}
    THEN [type |-> messageType, raw |-> "none", Enrolling |-> FALSE]
    ELSE NoMsg

\* plist.Unmarshal(raw, msg): fills msg from raw, or fails
PlistUnmarshal(raw, msg) ==
    IF raw = "plist"
    THEN [msg |-> [msg EXCEPT !.raw = raw], err |-> NilErr]
    ELSE [msg |-> msg, err |-> <<"plist: invalid">>]

\* checkInFromRaw parses the check-in message from raw
checkInFromRaw(messageType, raw) ==
    LET msg == NewCheckinFromMessageType(messageType)
    IN  IF msg = NoMsg
        THEN [msg |-> NoMsg, err |-> <<"unknown nanocmd message type", messageType>>]
        ELSE LET u == PlistUnmarshal(raw, msg)
             IN  IF u.err # NilErr
                 THEN [msg |-> NoMsg,
                       err |-> Errorf("unmarshal nanocmd check-in message", u.err)]
                 ELSE [msg |-> u.msg, err |-> NilErr]

\* a slip in building the event context: the request's parameters are dropped
MDMContextWithoutParams(r) == [Params |-> "none"]

\* workflow.MDMContext{Params: r.Params}
MDMContext(r) == [Params |-> r.Params]

\* a slip in the engine call: a background context instead of the request's
CheckinEventCallBackgroundCtx(r, msg) ==
    [fn |-> "MDMCheckinEvent", ctx |-> "background", id |-> r.ID, uuid |-> "none",
     raw |-> msg.raw, msg |-> msg, mdmCtx |-> MDMContext(r)]

\* one call of engine.MDMCheckinEvent
CheckinEventCall(r, msg) ==
    [fn |-> "MDMCheckinEvent", ctx |-> r.ctx, id |-> r.ID, uuid |-> "none",
     raw |-> msg.raw, msg |-> msg, mdmCtx |-> MDMContext(r)]

\* one call of engine.MDMIdleEvent
IdleEventCall(r, results) ==
    [fn |-> "MDMIdleEvent", ctx |-> r.ctx, id |-> r.ID, uuid |-> "none",
     raw |-> results.Raw, msg |-> NoMsg, mdmCtx |-> MDMContext(r)]

\* one call of engine.MDMCommandResponseEvent
CommandResponseEventCall(r, results) ==
    [fn |-> "MDMCommandResponseEvent", ctx |-> r.ctx, id |-> r.ID,
     uuid |-> results.CommandUUID, raw |-> results.Raw, msg |-> NoMsg,
     mdmCtx |-> MDMContext(r)]

\* one call of store.RetrieveTokenUpdateTally
RetrieveTallyCall(r) == [fn |-> "RetrieveTokenUpdateTally", ctx |-> r.ctx, id |-> r.ID]

\* what a handler did: the calls it made and what it returned
Outcome(engineCalls, storeCalls, logs, err) ==
    [engineCalls |-> engineCalls, storeCalls |-> storeCalls, logs |-> logs,
     cmd |-> "nil", err |-> err]

\* forward msg as a check-in event and wrap the engine's error (the tail
\* shared by Authenticate, TokenUpdate and CheckOut)
ForwardCheckin(r, msg, storeCalls, engErr) ==
    Outcome(<<CheckinEventCall(r, msg)>>, storeCalls, <<>>,
            IF engErr # NilErr THEN Errorf("nanocmd check-in event", engErr)
            ELSE NilErr)

\* CMDService.Authenticate
Authenticate(s, r, m, engErr) ==
    LET p == checkInFromRaw(m.MessageType, m.Raw)
    IN  IF p.err # NilErr
        THEN Outcome(<<>>, <<>>, <<>>,
                     Errorf("parse authenticate check-in message", p.err))
        ELSE ForwardCheckin(r, p.msg, <<>>, engErr)

\* a slip in the no-store path: the tally is consulted whether or not a
\* store was configured
HasTallyStoreAlways(s) == TRUE

\* s.store != nil
HasTallyStore(s) == s.store

\* a slip in the tally test: any TokenUpdate after the first also counts
IsFirstTokenUpdateAtLeastOne(t) == t >= 1

\* the test of the retrieved tally that marks an initial enrollment
IsFirstTokenUpdate(t) == t = 1

\* CMDService.TokenUpdate up to the engine call: the message to forward.
\* tallyRes is what the store answers if asked; valid is tue.Valid().
TokenUpdateMsg(s, r, m, tallyRes, valid) ==
    LET p == checkInFromRaw(m.MessageType, m.Raw)
    IN  IF p.err # NilErr
        THEN [msg |-> NoMsg, storeCalls |-> <<>>,
              err |-> Errorf("parse authenticate check-in message", p.err)]
        ELSE IF p.msg.type = "TokenUpdate" /\ HasTallyStore(s)
        THEN IF tallyRes.err # NilErr
             THEN [msg |-> NoMsg, storeCalls |-> <<RetrieveTallyCall(r)>>,
                   err |-> Errorf("retrieving token update tally", tallyRes.err)]
             ELSE IF IsFirstTokenUpdate(tallyRes.tally)
             THEN IF ~valid
                  THEN [msg |-> NoMsg, storeCalls |-> <<RetrieveTallyCall(r)>>,
                        err |-> <<"invalid token update wrapper">>]
                  ELSE [msg |-> [type |-> "TokenUpdateEnrolling", raw |-> p.msg.raw,
                                 Enrolling |-> TRUE],
                        storeCalls |-> <<RetrieveTallyCall(r)>>, err |-> NilErr]
             ELSE [msg |-> p.msg, storeCalls |-> <<RetrieveTallyCall(r)>>,
                   err |-> NilErr]
        ELSE [msg |-> p.msg, storeCalls |-> <<>>, err |-> NilErr]

\* CMDService.TokenUpdate
TokenUpdate(s, r, m, tallyRes, valid, engErr) ==
    LET d == TokenUpdateMsg(s, r, m, tallyRes, valid)
    IN  IF d.err # NilErr
        THEN Outcome(<<>>, d.storeCalls, <<>>, d.err)
        ELSE ForwardCheckin(r, d.msg, d.storeCalls, engErr)

\* CMDService.CheckOut
CheckOut(s, r, m, engErr) ==
    LET p == checkInFromRaw(m.MessageType, m.Raw)
    IN  IF p.err # NilErr
        THEN Outcome(<<>>, <<>>, <<>>,
                     Errorf("parse checkout check-in message", p.err))
        ELSE ForwardCheckin(r, p.msg, <<>>, engErr)

\* a slip in the masking test: the option is not consulted
MaskIdleErrorIgnoringOption(s, err) == ErrorsIs(err, ErrWorkflowAlreadyStarted)

\* a slip in the masking test: with the option on, every error is masked
MaskIdleErrorAnyError(s, err) == err # NilErr /\ s.maskStartedWorkflow

\* the condition under which an Idle event's error is masked
MaskIdleError(s, err) ==
    ErrorsIs(err, ErrWorkflowAlreadyStarted) /\ s.maskStartedWorkflow

\* a slip in the status test: every report but an acknowledgement is idle
IsIdleNotAcknowledged(status) == status # "Acknowledged"

\* the status that routes a command report to the idle event
IsIdle(status) == status = "Idle"

\* CMDService.CommandAndReportResults
CommandAndReportResults(s, r, results, engErr) ==
    IF IsIdle(results.Status)
    THEN IF MaskIdleError(s, engErr)
         THEN Outcome(<<IdleEventCall(r, results)>>, <<>>,
                      <<[ctx |-> r.ctx, level |-> "info", msg |-> engErr]>>, NilErr)
         ELSE IF engErr # NilErr
         THEN Outcome(<<IdleEventCall(r, results)>>, <<>>, <<>>,
                      Errorf("nanocmd idle command response event", engErr))
         ELSE Outcome(<<IdleEventCall(r, results)>>, <<>>, <<>>, NilErr)
    ELSE Outcome(<<CommandResponseEventCall(r, results)>>, <<>>, <<>>,
                 IF engErr # NilErr
                 THEN Errorf("nanocmd command response event", engErr)
                 ELSE NilErr)

-----------------------------------------------------------------------------
(* Spec: the cmdservice handlers, one call at a time *)

NoOutcome == Outcome(<<>>, <<>>, <<>>, NilErr)

\* the check-in messages NanoMDM may hand to a handler: the handler's own
\* MessageType, and tags the handler does not expect
CheckinMessages(types) ==
    { [MessageType |-> t, Raw |-> w, Status |-> "none", CommandUUID |-> "none"] :
        t \in types, w \in Raws }

\* what the engine may answer to a check-in event
CheckinEngineErrs == { NilErr, <<"engine failure">> }

\* mdm.CommandResults
CommandResults ==
    { [MessageType |-> "none", Raw |-> "plist", Status |-> st, CommandUUID |-> u] :
        st \in Statuses, u \in CommandUUIDs }

NoRequest == [ID |-> "none", Params |-> "none", ctx |-> "none"]
NoMessage == [MessageType |-> "none", Raw |-> "none", Status |-> "none",
              CommandUUID |-> "none"]
NoTally   == [tally |-> 0, err |-> NilErr]

\* what the tally store answers for id: the counter, or a failure
TallyAnswers(id) ==
    { [tally |-> tally[id], err |-> NilErr],
      [tally |-> 0, err |-> <<"tally store failure">>] }

Call(fn, r, m, tallyRes, valid, engErr, out) ==
    [fn |-> fn, r |-> r, m |-> m, tallyRes |-> tallyRes, valid |-> valid,
     engErr |-> engErr, out |-> out]

NoCall == Call("none", NoRequest, NoMessage, NoTally, TRUE, NilErr, NoOutcome)

\* cmdservice.New with any of WithMaskAlreadyStarted, WithTokenUpdateTallyStore
CMDServices == [maskStartedWorkflow : BOOLEAN, store : BOOLEAN]

TallyIdle ==
    /\ pc = [c \in 1..MaxCalls |-> "idle"]
    /\ reqOf = [c \in 1..MaxCalls |-> NoRequest]
    /\ loaded = [c \in 1..MaxCalls |-> 0]
    /\ result = [c \in 1..MaxCalls |-> NoCall]

HubIdle ==
    /\ config = <<>>
    /\ authOrder = <<>>
    /\ nopts = 0
    /\ given = {}
    /\ hub = <<>>

\* no DMAdapter and no Enqueue are in use
DMIdle ==
    /\ dma = <<>>
    /\ dmCall = <<>>

EnqIdle ==
    /\ enq = <<>>
    /\ enqCall = <<>>

\* the other components are not in use
RestIdle ==
    /\ notify = <<>>
    /\ certauth = <<>>
    /\ run = <<>>
    /\ server = <<>>
    /\ ctxCall = <<>>
    /\ seq = <<>>

Init ==
    /\ svc \in CMDServices
    /\ tally = [id \in IDs |-> 0]
    /\ lastCall = NoCall
    /\ TallyIdle
    /\ HubIdle
    /\ DMIdle
    /\ EnqIdle
    /\ RestIdle

\* the core service stores a TokenUpdate for id: the store raises the tally
StoreTokenUpdate(id) ==
    /\ tally[id] < MaxTally
    /\ tally' = [tally EXCEPT ![id] = @ + 1]
    /\ UNCHANGED <<svc, lastCall, tallyVars, hubVars, dmVars, enqVars, restVars>>

DoAuthenticate ==
    \E r \in Requests, m \in CheckinMessages({"Authenticate", "Bogus"}),
       engErr \in CheckinEngineErrs :
        /\ lastCall' = Call("Authenticate", r, m, NoTally, TRUE, engErr,
                            Authenticate(svc, r, m, engErr))
        /\ UNCHANGED <<svc, tally, tallyVars, hubVars, dmVars, enqVars, restVars>>

DoTokenUpdate ==
    \E r \in Requests,
       m \in CheckinMessages({"TokenUpdate", "Authenticate", "Bogus"}),
       valid \in BOOLEAN, engErr \in CheckinEngineErrs :
        \E tallyRes \in TallyAnswers(r.ID) :
            /\ lastCall' = Call("TokenUpdate", r, m, tallyRes, valid, engErr,
                                TokenUpdate(svc, r, m, tallyRes, valid, engErr))
            /\ UNCHANGED <<svc, tally, tallyVars, hubVars, dmVars, enqVars, restVars>>

DoCheckOut ==
    \E r \in Requests, m \in CheckinMessages({"CheckOut", "Bogus"}),
       engErr \in CheckinEngineErrs :
        /\ lastCall' = Call("CheckOut", r, m, NoTally, TRUE, engErr,
                            CheckOut(svc, r, m, engErr))
        /\ UNCHANGED <<svc, tally, tallyVars, hubVars, dmVars, enqVars, restVars>>

DoCommandAndReportResults ==
    \E r \in Requests, results \in CommandResults, engErr \in EngineErrs :
        /\ lastCall' = Call("CommandAndReportResults", r, results, NoTally, TRUE,
                            engErr, CommandAndReportResults(svc, r, results, engErr))
        /\ UNCHANGED <<svc, tally, tallyVars, hubVars, dmVars, enqVars, restVars>>

Next ==
    \/ \E id \in IDs : StoreTokenUpdate(id)
    \/ DoAuthenticate
    \/ DoTokenUpdate
    \/ DoCheckOut
    \/ DoCommandAndReportResults

Spec == Init /\ [][Next]_vars

-----------------------------------------------------------------------------
(* SpecTally: concurrent TokenUpdate requests, each passing through the    *)
(* core service (which has the store raise the tally) and then the adapter *)

Calls == 1..MaxCalls

\* the TokenUpdate check-in every request of SpecTally carries
TokenUpdateMessage ==
    [MessageType |-> "TokenUpdate", Raw |-> "plist", Status |-> "none",
     CommandUUID |-> "none"]

\* the adapter as nanohub.New builds it: the tally store is always configured
HubCMDService == [maskStartedWorkflow |-> FALSE, store |-> TRUE]

InitTally ==
    /\ svc = HubCMDService
    /\ tally = [id \in IDs |-> 0]
    /\ lastCall = NoCall
    /\ TallyIdle
    /\ HubIdle
    /\ DMIdle
    /\ EnqIdle
    /\ RestIdle

\* a TokenUpdate request arrives
Start(c) ==
    /\ pc[c] = "idle"
    /\ \E r \in Requests : reqOf' = [reqOf EXCEPT ![c] = r]
    /\ pc' = [pc EXCEPT ![c] = "coreLoad"]
    /\ UNCHANGED <<tally, loaded, result, cmdVars, hubVars, dmVars, enqVars, restVars>>

\* the core service's store reads the tally it is about to raise
CoreLoad(c) ==
    /\ pc[c] = "coreLoad"
    /\ loaded' = [loaded EXCEPT ![c] = tally[reqOf[c].ID]]
    /\ pc' = [pc EXCEPT ![c] = "coreStore"]
    /\ UNCHANGED <<tally, reqOf, result, cmdVars, hubVars, dmVars, enqVars, restVars>>

\* ... and writes it back raised by one
CoreStore(c) ==
    /\ pc[c] = "coreStore"
    /\ tally' = [tally EXCEPT ![reqOf[c].ID] = loaded[c] + 1]
    /\ pc' = [pc EXCEPT ![c] = "adapter"]
    /\ UNCHANGED <<reqOf, loaded, result, cmdVars, hubVars, dmVars, enqVars, restVars>>

\* the adapter's TokenUpdate: one read of the tally, then the engine event
AdapterTokenUpdate(c) ==
    /\ pc[c] = "adapter"
    /\ \E tallyRes \in TallyAnswers(reqOf[c].ID), valid \in BOOLEAN,
          engErr \in {NilErr, <<"engine failure">>} :
           result' = [result EXCEPT ![c] =
                        Call("TokenUpdate", reqOf[c], TokenUpdateMessage,
                             tallyRes, valid, engErr,
                             TokenUpdate(svc, reqOf[c], TokenUpdateMessage,
                                         tallyRes, valid, engErr))]
    /\ pc' = [pc EXCEPT ![c] = "done"]
    /\ UNCHANGED <<tally, reqOf, loaded, cmdVars, hubVars, dmVars, enqVars, restVars>>

NextTally ==
    \E c \in Calls :
        \/ Start(c)
        \/ CoreLoad(c)
        \/ CoreStore(c)
        \/ AdapterTokenUpdate(c)

SpecTally == InitTally /\ [][NextTally]_vars

-----------------------------------------------------------------------------
(* nanohub: the config, its options, and New *)

\* newConfig creates and initializes a new, safe config
newConfig ==
    [logger       |-> TRUE,
     authConfig   |-> [mdmSignature |-> FALSE, signatureHeader |-> ""],
     migration    |-> FALSE,
     checkin      |-> FALSE,
     noCombined   |-> FALSE,
     dumpWriter   |-> FALSE,
     certAuthOpts |-> <<>>,
     webhookURLs  |-> <<>>,
     svcs         |-> <<>>,
     verifier     |-> "nil",
     rootsPEM     |-> "",
     intsPEM      |-> "",
     dmStore      |-> FALSE,
     dmRmSets     |-> FALSE,
     cmdStore     |-> FALSE,
     cmdWorkerStore |-> FALSE,
     cmdSvcOpts   |-> <<>>]

\* a slip in the check-in test: the separate handler's flag read the wrong way
PrecludesCheckinInverted(c) == c.noCombined /\ c.checkin

\* config.validate: no handler would be left for check-ins
PrecludesCheckin(c) == c.noCombined /\ ~c.checkin

\* a slip in the trust test: only roots and intermediates together count
AmbiguousTrustBothPEMs(c) ==
    c.verifier # "nil" /\ (c.rootsPEM # "" /\ c.intsPEM # "")

\* config.validate: an explicit verifier and PEM material for a pool verifier
AmbiguousTrust(c) ==
    c.verifier # "nil" /\ (c.rootsPEM # "" \/ c.intsPEM # "")

\* a slip in the extraction test: Mdm-Signature mode read the wrong way
SignatureModesConflictInverted(c) ==
    c.authConfig.signatureHeader # "" /\ ~c.authConfig.mdmSignature

\* config.validate: a certificate header and Mdm-Signature mode are both set
SignatureModesConflict(c) ==
    c.authConfig.signatureHeader # "" /\ c.authConfig.mdmSignature

\* config.validate: the error, or nil
validate(c) ==
    IF ~c.logger
    THEN <<"nil logger">>
    ELSE IF PrecludesCheckin(c)
    THEN <<"config precludes checkin support">>
    ELSE IF AmbiguousTrust(c)
    THEN <<"roots and intermediates present with explicit verifier">>
    ELSE IF SignatureModesConflict(c)
    THEN <<"signature header and Mdm-Signature are mutually exclusive">>
    ELSE NilErr

\* the option bodies: each is the config after the option ran
WithCheckinHandler(c) == [c EXCEPT !.checkin = TRUE]

WithoutServerCombinedHandler(c) == [c EXCEPT !.noCombined = TRUE]

WithDump(c, w) == [c EXCEPT !.dumpWriter = w]

WithAllowRetroactive(c) ==
    [c EXCEPT !.certAuthOpts = Append(@, "WithAllowRetroactive")]

WithVerifier(c, verifier) == [c EXCEPT !.verifier = verifier]

WithRootPEMs(c, pem) == [c EXCEPT !.rootsPEM = pem]

WithIntermediatePEMs(c, pem) == [c EXCEPT !.intsPEM = pem]

WithMdmSignature(c) == [c EXCEPT !.authConfig.mdmSignature = TRUE]

\* a slip in WithCertHeader: Mdm-Signature mode is left as it was
WithCertHeaderKeepingMdmSignature(c, header) ==
    [c EXCEPT !.authConfig.signatureHeader = header]

WithCertHeader(c, header) ==
    [c EXCEPT !.authConfig.mdmSignature = FALSE,
              !.authConfig.signatureHeader = header]

WithWebhook(c, url) == [c EXCEPT !.webhookURLs = Append(@, url)]

WithMigration(c) == [c EXCEPT !.migration = TRUE]

WithDM(c, store) == [c EXCEPT !.dmStore = store]

WithDMSetRemover(c) == [c EXCEPT !.dmRmSets = TRUE]

WithWF(c, store) == [c EXCEPT !.cmdStore = store]

WithMaskAlreadyStarted(c) ==
    [c EXCEPT !.cmdSvcOpts = Append(@, "WithMaskAlreadyStarted")]

WithWFWorker(c, store) == [c EXCEPT !.cmdWorkerStore = store]

\* a service in the list multi.New is given
Service(type, arg) == [type |-> type, arg |-> arg]

\* one layer of the service chain; svcs is the list a multi-service fans out to
Layer(type, arg, svcs) == [type |-> type, arg |-> arg, svcs |-> svcs]

\* the webhook services of urls, in the order of urls
Webhooks(urls) == [i \in 1..Len(urls) |-> Service("webhook", urls[i])]

\* the supplementary services, as New assembles them
SupplementaryServices(c) ==
    LET withRemover == IF c.dmStore /\ c.dmRmSets
                       THEN Append(c.svcs, Service("setsremover", ""))
                       ELSE c.svcs
        withCmd     == IF c.cmdStore
                       THEN <<Service("cmdservice", "")>> \o withRemover
                       ELSE withRemover
    IN  IF Len(c.webhookURLs) >= 1
        THEN withCmd \o Webhooks(c.webhookURLs)
        ELSE withCmd

\* a slip in the fan-out list: the core service appended, not put first
FanOutListCoreLast(core, svcs) == svcs \o <<core>>

\* multi.New's argument: the core service and the supplementary ones
FanOutList(core, svcs) == <<core>> \o svcs

\* a slip in the wiring: certauth is always given the retroactive option
AllowRetroactiveAlways(c) == TRUE

\* certauth.New(nanoSvc, store, config.certAuthOpts...): whether the options
\* New passes on hold certauth.WithAllowRetroactive()
AllowRetroactive(c) ==
    \E i \in DOMAIN c.certAuthOpts : c.certAuthOpts[i] = "WithAllowRetroactive"

\* the service New assembles, layers outer to inner
ServiceChain(c) ==
    LET core  == Service("nanomdm", IF c.dmStore THEN "dm" ELSE "")
        svcs  == SupplementaryServices(c)
        inner == IF Len(svcs) >= 1
                 THEN <<Layer("multi", "", FanOutList(core, svcs))>>
                 ELSE <<Layer("nanomdm", core.arg, <<>>)>>
        auth  == <<Layer("certauth",
                         IF AllowRetroactive(c) THEN "retroactive" ELSE "",
                         <<>>)>> \o inner
    IN  IF c.dumpWriter THEN <<Layer("dump", "", <<>>)>> \o auth ELSE auth

\* an HTTP handler over a service chain, or a middleware (no service)
HTTPLayer(type, arg, service) == [type |-> type, arg |-> arg, svc |-> service]

NilHandler == <<>>

\* a slip in the wrapping order: verification wrapped around the extraction
authMWVerifyOutermost(ac, h) ==
    <<HTTPLayer("CertVerifyMiddleware", "", <<>>)>> \o
        (IF ac.mdmSignature
         THEN <<HTTPLayer("CertExtractMdmSignatureMiddleware", "", <<>>)>> \o h
         ELSE IF ac.signatureHeader # ""
         THEN <<HTTPLayer("CertExtractPEMHeaderMiddleware", ac.signatureHeader, <<>>)>>
                  \o h
         ELSE <<HTTPLayer("CertExtractTLSMiddleware", "", <<>>)>> \o h)

\* hub.authMW: the authentication middleware wrapped around handler h
authMW(ac, h) ==
    LET verified == <<HTTPLayer("CertVerifyMiddleware", "", <<>>)>> \o h
    IN  IF ac.mdmSignature
        THEN <<HTTPLayer("CertExtractMdmSignatureMiddleware", "", <<>>)>> \o verified
        ELSE IF ac.signatureHeader # ""
        THEN <<HTTPLayer("CertExtractPEMHeaderMiddleware", ac.signatureHeader, <<>>)>>
                 \o verified
        ELSE <<HTTPLayer("CertExtractTLSMiddleware", "", <<>>)>> \o verified

\* the adapter New creates when the workflow engine is configured
HubAdapter(c) ==
    [maskStartedWorkflow |->
        \E i \in DOMAIN c.cmdSvcOpts : c.cmdSvcOpts[i] = "WithMaskAlreadyStarted",
     store |-> TRUE]

NilHub == <<>>

\* a slip in the choice of the server handler: the two constructors swapped
ServerHandlerSwapped(noCombined) ==
    IF noCombined THEN "CheckinAndCommandHandler"
    ELSE "CommandAndReportResultsHandler"

\* the nanohttpmdm constructor New uses for the primary "ServerURL" handler
ServerHandler(noCombined) ==
    IF noCombined THEN "CommandAndReportResultsHandler"
    ELSE "CheckinAndCommandHandler"

\* the MDM traffic a nanohttpmdm handler serves: check-ins, command reports
Serves(handler) ==
    IF handler = "CheckinAndCommandHandler" THEN {"checkin", "command"}
    ELSE IF handler = "CommandAndReportResultsHandler" THEN {"command"}
    ELSE IF handler = "CheckinHandler" THEN {"checkin"}
    ELSE {}

\* New: the hub and the error it returns for config c (the options already
\* run); extErr is the error of a collaborator's constructor, or nil
New(c, extErr) ==
    IF validate(c) # NilErr
    THEN [hub |-> NilHub, err |-> validate(c)]
    ELSE IF extErr # NilErr
    THEN [hub |-> NilHub, err |-> extErr]
    ELSE LET nanoSvc == ServiceChain(c)
         IN  [hub |->
                <<[nanomdm |->
                     authMW(c.authConfig,
                            <<HTTPLayer(ServerHandler(c.noCombined), "server",
                                        nanoSvc)>>),
                   checkin |->
                     IF c.checkin
                     THEN authMW(c.authConfig,
                                 <<HTTPLayer("CheckinHandler", "checkin", nanoSvc)>>)
                     ELSE NilHandler,
                   migration |->
                     IF c.migration
                     THEN <<HTTPLayer("CheckinHandler", "migration", nanoSvc)>>
                     ELSE NilHandler,
                   engine |-> c.cmdStore,
                   cmdSvc |-> IF c.cmdStore THEN <<HubAdapter(c)>> ELSE <<>>,
                   dmNotifier |-> c.dmStore,
                   runner |-> c.cmdStore /\ c.cmdWorkerStore]>>,
              err |-> NilErr]

-----------------------------------------------------------------------------
(* SpecHub: a caller gives New options, which run in order, and New        *)
(* validates the config and assembles the hub                              *)

InitHub ==
    /\ svc = HubCMDService
    /\ tally = [id \in IDs |-> 0]
    /\ lastCall = NoCall
    /\ TallyIdle
    /\ config = newConfig
    /\ authOrder = <<>>
    /\ nopts = 0
    /\ given = {}
    /\ hub = <<>>
    /\ DMIdle
    /\ EnqIdle
    /\ RestIdle

\* runOptions runs one more option, whose body is next
RunOption(next, name) ==
    /\ hub = <<>>
    /\ nopts < MaxOpts
    /\ config' = next
    /\ nopts' = nopts + 1
    /\ authOrder' = IF name \in {"WithMdmSignature", "WithCertHeader"}
                    THEN Append(authOrder, name) ELSE authOrder
    /\ given' = given \cup {name}
    /\ UNCHANGED <<hub, tally, cmdVars, tallyVars, dmVars, enqVars, restVars>>

OptCheckinHandler == RunOption(WithCheckinHandler(config), "WithCheckinHandler")

OptWithoutServerCombinedHandler ==
    RunOption(WithoutServerCombinedHandler(config), "WithoutServerCombinedHandler")

OptDump == RunOption(WithDump(config, TRUE), "WithDump")

OptAllowRetroactive == RunOption(WithAllowRetroactive(config), "WithAllowRetroactive")

OptVerifier ==
    \E v \in {"nil", "nopVerifier"} : RunOption(WithVerifier(config, v), "WithVerifier")

OptRootPEMs ==
    \E pem \in {"", "hello"} : RunOption(WithRootPEMs(config, pem), "WithRootPEMs")

OptIntermediatePEMs ==
    \E pem \in {"", "ints"} :
        RunOption(WithIntermediatePEMs(config, pem), "WithIntermediatePEMs")

OptMdmSignature == RunOption(WithMdmSignature(config), "WithMdmSignature")

OptCertHeader ==
    RunOption(WithCertHeader(config, "X-Client-Cert"), "WithCertHeader")

OptWebhook ==
    \E url \in {"url1", "url2"} : RunOption(WithWebhook(config, url), "WithWebhook")

OptMigration == RunOption(WithMigration(config), "WithMigration")

OptDM == RunOption(WithDM(config, TRUE), "WithDM")

OptDMSetRemover == RunOption(WithDMSetRemover(config), "WithDMSetRemover")

OptWF == RunOption(WithWF(config, TRUE), "WithWF")

OptMaskAlreadyStarted ==
    RunOption(WithMaskAlreadyStarted(config), "WithMaskAlreadyStarted")

OptWFWorker == RunOption(WithWFWorker(config, TRUE), "WithWFWorker")

\* the options have run: New validates and assembles
DoNew ==
    /\ hub = <<>>
    /\ \E extErr \in {NilErr, <<"creating collaborator">>} :
          hub' = <<New(config, extErr)>>
    /\ UNCHANGED <<config, authOrder, nopts, given, tally,
                   cmdVars, tallyVars, dmVars, enqVars, restVars>>

NextHub ==
    \/ OptCheckinHandler
    \/ OptWithoutServerCombinedHandler
    \/ OptDump
    \/ OptAllowRetroactive
    \/ OptVerifier
    \/ OptRootPEMs
    \/ OptIntermediatePEMs
    \/ OptMdmSignature
    \/ OptCertHeader
    \/ OptWebhook
    \/ OptMigration
    \/ OptDM
    \/ OptDMSetRemover
    \/ OptWF
    \/ OptMaskAlreadyStarted
    \/ OptWFWorker
    \/ DoNew

SpecHub == InitHub /\ [][NextHub]_vars

-----------------------------------------------------------------------------
(* ddmadapter: the declarative-management adapter *)

\* a pointer that is nil
Nil == <<>>

\* a pointer to x
Ptr(x) == <<x>>

\* ErrUnknownDMEndpoint, the sentinel for an unknown "Endpoint" value
ErrUnknownDMEndpoint == "unknown DM endpoint in check-in"

\* an error of the adapter: like a chain of texts, each with the value that
\* fmt.Errorf formatted into it (a string as its "/"-separated tokens)
DMError(text, arg) == <<[text |-> text, arg |-> arg]>>

\* errors.New(text)
ErrorsNew(text) == DMError(text, <<>>)

\* fmt.Errorf("<text>: <arg>: %w", err), also without an arg
DMErrorf(text, arg, err) == DMError(text, arg) \o err

\* errors.Is on an adapter error
DMErrorsIs(err, target) == \E i \in DOMAIN err : err[i].text = target

\* the context handed to a collaborator: the caller's context, and whose
\* mux and status report are attached to it
CtxOf(ctx) ==
    [base   |-> ctx.base,
     mux    |-> IF ctx.mux = Nil THEN "none" ELSE ctx.mux[1].owner,
     status |-> IF ctx.status = Nil THEN "none" ELSE ctx.status[1].owner]

\* jsonpath.NewPathMux(): a mux with no handlers
NewPathMux == [owner |-> "adapter", custom |-> {}, builtin |-> FALSE]

\* &ddm.StatusReport{Raw: raw}
NewStatusReport(raw) == [owner |-> "adapter", Raw |-> raw, ID |-> "", Values |-> <<>>]

\* a slip in ContextStatusReport: a fresh report whatever ctx carries
ContextStatusReportAlwaysNew(ctx, raw) ==
    [out    |-> [ctx EXCEPT !.status = Ptr(NewStatusReport(raw))],
     status |-> NewStatusReport(raw)]

\* ContextStatusReport: the status report ctx carries, or a new one over raw
ContextStatusReport(ctx, raw) ==
    IF ctx.status = Nil
    THEN [out    |-> [ctx EXCEPT !.status = Ptr(NewStatusReport(raw))],
          status |-> NewStatusReport(raw)]
    ELSE [out |-> ctx, status |-> ctx.status[1]]

\* ContextJSONMux: the path mux ctx carries, or a new one
ContextJSONMux(ctx) ==
    IF ctx.mux = Nil
    THEN [out |-> [ctx EXCEPT !.mux = Ptr(NewPathMux)], mux |-> NewPathMux]
    ELSE [out |-> ctx, mux |-> ctx.mux[1]]

\* the top-level paths ddm.RegisterStatusHandlers registers handlers for
BuiltinPaths == {".StatusItems", ".Errors"}

\* ddm.RegisterStatusHandlers(mux, status): the default handlers, which
\* write into status, are added to mux
RegisterStatusHandlers(mux) == [mux EXCEPT !.builtin = TRUE]

\* the paths mux has handlers for
HandledPaths(mux) == mux.custom \cup (IF mux.builtin THEN BuiltinPaths ELSE {})

\* the values the default handlers scrape from a status body
StatusValues(raw) ==
    IF \E i \in DOMAIN raw.keys : raw.keys[i] = ".StatusItems"
    THEN <<[Path |-> ".StatusItems.device.identifier.udid", Value |-> "testUUID"]>>
    ELSE <<>>

\* ddm.ParseStatusUsingMux(raw, mux): runs the handler of every top-level
\* path of raw that mux has one for, and lists the other paths as
\* unhandled; fails on bytes that are not JSON or when a handler fails
\* (handlerErr, nil when none does)
ParseStatusUsingMux(raw, mux, handlerErr) ==
    LET Handled(k)   == k \in HandledPaths(mux)
        Unhandled(k) == k \notin HandledPaths(mux)
        Custom(k)    == k \in mux.custom
        handled      == SelectSeq(raw.keys, Handled)
    IN  IF ~raw.json
        THEN [unhandled |-> <<>>, err |-> ErrorsNew("invalid JSON"),
              customRan |-> <<>>, values |-> <<>>]
        ELSE [unhandled |-> IF handlerErr # Nil /\ handled # <<>>
                            THEN <<>> ELSE SelectSeq(raw.keys, Unhandled),
              err       |-> IF handled # <<>> THEN handlerErr ELSE Nil,
              customRan |-> SelectSeq(raw.keys, Custom),
              values    |-> IF mux.builtin THEN StatusValues(raw) ELSE <<>>]

\* what a DeclarativeManagement call returns and does: the data and error
\* returned, the calls to the storage and to the ID function, the log, the
\* custom handlers that ran, and the mux and status report it worked on
DMOutcome(ret, err, storeCalls, idFnCalls, logs, customRan, mux, status) ==
    [ret |-> ret, err |-> err, storeCalls |-> storeCalls, idFnCalls |-> idFnCalls,
     logs |-> logs, customRan |-> customRan, mux |-> mux, status |-> status]

\* no bytes
NoData == "nil"

\* a string without a "/", as its one token
Str(s) == <<s>>

\* one call of the status ID function, which is given the request itself
StatusIDFnCall(r, status) ==
    [fn |-> "statusIDFn", ctx |-> CtxOf(r.ctx), id |-> r.ID, status |-> status.owner]

\* one call of statusStore.StoreDeclarationStatus
StoreDeclarationStatusCall(ctx, r, status) ==
    [fn |-> "StoreDeclarationStatus", ctx |-> CtxOf(ctx), args |-> <<Str(r.ID)>>,
     status |-> Ptr(status)]

\* one call of a declarationStore retrieval; args are the arguments after ctx
RetrievalCall(fn, r, args) ==
    [fn |-> fn, ctx |-> CtxOf(r.ctx), args |-> args, status |-> Nil]

\* a slip in the parsing step: unhandled paths treated as a failure
parseStatusUnhandledFails(status, mux, handlerErr) ==
    LET p == ParseStatusUsingMux(status.Raw, mux, handlerErr)
    IN  [err       |-> IF p.err # Nil THEN DMErrorf("parsing status", <<>>, p.err)
                       ELSE IF p.unhandled # <<>>
                       THEN DMError("unhandled status path", <<>>)
                       ELSE Nil,
         logs      |-> <<>>,
         customRan |-> p.customRan,
         status    |-> [status EXCEPT !.Values = @ \o p.values]]

\* handleStatus, the parsing step: the report's raw bytes go through the
\* mux, and each unhandled path is logged
parseStatus(status, mux, handlerErr) ==
    LET p == ParseStatusUsingMux(status.Raw, mux, handlerErr)
    IN  [err       |-> IF p.err # Nil THEN DMErrorf("parsing status", <<>>, p.err)
                       ELSE Nil,
         logs      |-> IF p.err # Nil THEN <<>>
                       ELSE [i \in 1..Len(p.unhandled) |->
                               [level |-> "debug", msg |-> "unhandled status path",
                                path |-> p.unhandled[i]]],
         customRan |-> p.customRan,
         status    |-> [status EXCEPT !.Values = @ \o p.values]]

\* handleStatus, the ID step: the ID function, if there is one, stamps the
\* report; err is the handler's error variable after the step
generateStatusID(d, r, status, idAns) ==
    IF d.statusIDFn
    THEN [status |-> [status EXCEPT !.ID = idAns.id],
          calls  |-> <<StatusIDFnCall(r, status)>>,
          err    |-> idAns.err,
          logs   |-> IF idAns.err # Nil
                     THEN <<[level |-> "info", msg |-> "generate status id",
                             path |-> ""]>>
                     ELSE <<>>]
    ELSE [status |-> status, calls |-> <<>>, err |-> Nil, logs |-> <<>>]

\* a slip in the storing step: the handler's pending error returned first
storeStatusAfterPendingError(d, r, ctx, status, err, storeErr) ==
    IF err # Nil
    THEN [calls |-> <<>>, err |-> DMErrorf("generate status id", <<>>, err),
          logs |-> <<>>]
    ELSE IF ~d.statusStore
    THEN [calls |-> <<>>, err |-> Nil, logs |-> <<>>]
    ELSE [calls |-> <<StoreDeclarationStatusCall(ctx, r, status)>>,
          err   |-> IF storeErr # Nil
                    THEN DMErrorf("storing status", <<>>, storeErr) ELSE Nil,
          logs  |-> <<[level |-> IF storeErr # Nil THEN "info" ELSE "debug",
                       msg |-> IF storeErr # Nil THEN "storing status"
                               ELSE "stored status",
                       path |-> ""]>>]

\* a slip in the storing step: a storage failure logged and not returned
storeStatusFailureOnlyLogged(d, r, ctx, status, err, storeErr) ==
    IF ~d.statusStore
    THEN [calls |-> <<>>, err |-> Nil, logs |-> <<>>]
    ELSE [calls |-> <<StoreDeclarationStatusCall(ctx, r, status)>>,
          err   |-> Nil,
          logs  |-> <<[level |-> IF storeErr # Nil THEN "info" ELSE "debug",
                       msg |-> IF storeErr # Nil THEN "storing status"
                               ELSE "stored status",
                       path |-> ""]>>]

\* handleStatus, the storing step: without a status store nothing is
\* stored; otherwise the report is stored once and a failure is returned.
\* err, the handler's error variable at this point, is overwritten
storeStatus(d, r, ctx, status, err, storeErr) ==
    IF ~d.statusStore
    THEN [calls |-> <<>>, err |-> Nil, logs |-> <<>>]
    ELSE [calls |-> <<StoreDeclarationStatusCall(ctx, r, status)>>,
          err   |-> IF storeErr # Nil
                    THEN DMErrorf("storing status", <<>>, storeErr) ELSE Nil,
          logs  |-> <<[level |-> IF storeErr # Nil THEN "info" ELSE "debug",
                       msg |-> IF storeErr # Nil THEN "storing status"
                               ELSE "stored status",
                       path |-> ""]>>]

\* handleStatus handles DM status updates from the client
handleStatus(d, r, msg, handlerErr, idAns, storeErr) ==
    LET cm     == ContextJSONMux(r.ctx)
        cs     == ContextStatusReport(cm.out, msg.Data)
        mux    == RegisterStatusHandlers(cm.mux)
        parsed == parseStatus(cs.status, mux, handlerErr)
        idStep == generateStatusID(d, r, parsed.status, idAns)
        stored == storeStatus(d, r, cs.out, idStep.status, idStep.err, storeErr)
    IN  IF parsed.err # Nil
        THEN DMOutcome(NoData, parsed.err, <<>>, <<>>, <<>>, parsed.customRan,
                       Ptr(mux), Ptr(parsed.status))
        ELSE DMOutcome(NoData, stored.err, stored.calls, idStep.calls,
                       parsed.logs \o idStep.logs \o stored.logs,
                       parsed.customRan, Ptr(mux), Ptr(idStep.status))

\* the outcome of a retrieval handler: the store's bytes and its error
\* wrapped, after the one store call
Retrieved(call, text, arg, ans) ==
    DMOutcome(ans.ret,
              IF ans.err # Nil THEN DMErrorf(text, arg, ans.err) ELSE Nil,
              <<call>>, <<>>,
              IF ans.err # Nil THEN <<>>
              ELSE <<[level |-> "debug", msg |-> text, path |-> ""]>>,
              <<>>, Nil, Nil)

\* handleTokens handles the retrieval of DM client tokens
handleTokens(r, ans) ==
    Retrieved(RetrievalCall("RetrieveTokensJSON", r, <<Str(r.ID)>>),
              "retrieving tokens", <<>>, ans)

\* a slip in handleDeclarationItems: the tokens retrieval called
handleDeclarationItemsFromTokens(r, ans) ==
    Retrieved(RetrievalCall("RetrieveTokensJSON", r, <<Str(r.ID)>>),
              "retrieving declaration items", <<>>, ans)

\* handleDeclarationItems handles the retrieval of DM client declaration items
handleDeclarationItems(r, ans) ==
    Retrieved(RetrievalCall("RetrieveDeclarationItemsJSON", r, <<Str(r.ID)>>),
              "retrieving declaration items", <<>>, ans)

\* the index of the first "/" of path, or 0
FirstSlash(path) ==
    IF \E i \in DOMAIN path : path[i] = "/"
    THEN CHOOSE i \in DOMAIN path :
            path[i] = "/" /\ \A j \in 1..(i - 1) : path[j] # "/"
    ELSE 0

\* ddm.ParseDeclarationPath(path): the declaration type before the slash
\* and the declaration identifier after it, or an error
ParseDeclarationPath(path) ==
    LET i == FirstSlash(path)
    IN  IF i = 0
        THEN [type |-> <<>>, id |-> <<>>, err |-> ErrorsNew("invalid path element count")]
        ELSE IF i = 1 \/ i = Len(path)
        THEN [type |-> <<>>, id |-> <<>>,
              err |-> ErrorsNew("empty type or identifier path elements")]
        ELSE [type |-> SubSeq(path, 1, i - 1), id |-> SubSeq(path, i + 1, Len(path)),
              err |-> Nil]

\* a slip in handleDeclaration: type and identifier swapped in the store call
handleDeclarationSwapped(r, path, ans) ==
    LET p == ParseDeclarationPath(path)
    IN  IF p.err # Nil
        THEN DMOutcome(NoData, DMErrorf("parsing declaration path", path, p.err),
                       <<>>, <<>>, <<>>, <<>>, Nil, Nil)
        ELSE Retrieved(RetrievalCall("RetrieveEnrollmentDeclarationJSON", r,
                                     <<p.type, p.id, Str(r.ID)>>),
                       "retrieveing declaration", p.id, ans)

\* handleDeclaration handles the declaration retrieval DM endpoint: the
\* store is called with declarationID, declarationType, r.ID
handleDeclaration(r, path, ans) ==
    LET p == ParseDeclarationPath(path)
    IN  IF p.err # Nil
        THEN DMOutcome(NoData, DMErrorf("parsing declaration path", path, p.err),
                       <<>>, <<>>, <<>>, <<>>, Nil, Nil)
        ELSE Retrieved(RetrievalCall("RetrieveEnrollmentDeclarationJSON", r,
                                     <<p.id, p.type, Str(r.ID)>>),
                       "retrieveing declaration", p.id, ans)

\* a failed call that reached no handler
DMFailure(err) == DMOutcome(NoData, err, <<>>, <<>>, <<>>, <<>>, Nil, Nil)

\* strings.HasPrefix
HasPrefix(s, prefix) ==
    Len(s) >= Len(prefix) /\ SubSeq(s, 1, Len(prefix)) = prefix

declarationPrefix == <<"declaration", "/">>

\* a slip in the error of an unknown endpoint: the sentinel formatted, not wrapped
UnknownEndpointErrorNotWrapped(endpoint) == DMError("%v: %s", endpoint)

\* fmt.Errorf("%w: %s", ErrUnknownDMEndpoint, msg.Endpoint)
UnknownEndpointError(endpoint) ==
    DMErrorf("%w: %s", endpoint, ErrorsNew(ErrUnknownDMEndpoint))

\* DeclarativeManagement adapts DMAdapter to NanoMDM: r and msg are
\* pointers; handlerErr, idAns, storeErr and ans are what the mux handlers,
\* the ID function, the status store and the declaration store answer
DeclarativeManagement(d, r, msg, handlerErr, idAns, storeErr, ans) ==
    IF r = Nil THEN DMFailure(ErrorsNew("nil request"))
    ELSE IF msg = Nil THEN DMFailure(ErrorsNew("nil message"))
    ELSE IF msg[1].Endpoint = Str("status")
    THEN handleStatus(d, r[1], msg[1], handlerErr, idAns, storeErr)
    ELSE IF msg[1].Endpoint = Str("tokens") THEN handleTokens(r[1], ans)
    ELSE IF msg[1].Endpoint = Str("declaration-items")
    THEN handleDeclarationItems(r[1], ans)
    ELSE IF HasPrefix(msg[1].Endpoint, declarationPrefix)
    THEN handleDeclaration(r[1],
                           SubSeq(msg[1].Endpoint, Len(declarationPrefix) + 1,
                                  Len(msg[1].Endpoint)),
                           ans)
    ELSE DMFailure(UnknownEndpointError(msg[1].Endpoint))

-----------------------------------------------------------------------------
(* SpecDM: NanoMDM hands DeclarativeManagement check-ins to a DMAdapter,   *)
(* one call at a time                                                      *)

\* ddmadapter.New with any of WithStatusStore, WithStatusIDFn
DMAdapters == [statusStore : BOOLEAN, statusIDFn : BOOLEAN]

\* status bodies: bytes that are not JSON, and JSON objects by their
\* top-level paths in order
StatusBodies ==
    { [json |-> FALSE, keys |-> <<>>] } \cup
    { [json |-> TRUE, keys |-> k] :
        k \in { <<>>, <<".StatusItems">>, <<".test", ".StatusItems">>,
                <<".StatusItems", ".unknown">>, <<".unknown", ".test">> } }

\* the body of TestStatus
TestBody == [json |-> TRUE, keys |-> <<".test", ".StatusItems">>]

\* the mux a caller attached to the context, with a handler on ".test"
CallerMux == [owner |-> "caller", custom |-> {".test"}, builtin |-> FALSE]

\* the status report a caller attached to the context, over raw
CallerStatusReport(raw) == [owner |-> "caller", Raw |-> raw, ID |-> "", Values |-> <<>>]

\* the request contexts of id: nothing attached, or a mux and/or a report
\* (over one of raws) attached
DMContexts(id, raws) ==
    { [base |-> IF id = "e1" THEN "ctx1" ELSE "ctx2", mux |-> m, status |-> s] :
        m \in {Nil, Ptr(CallerMux)},
        s \in {Nil} \cup { Ptr(CallerStatusReport(raw)) : raw \in raws } }

\* the requests NanoMDM may pass
DMRequests(raws) ==
    UNION { { [ID |-> id, ctx |-> c] : c \in DMContexts(id, raws) } : id \in IDs }

\* the DeclarativeManagement messages with one of endpoints
DMMessages(endpoints, bodies) ==
    { [Endpoint |-> e, Data |-> b] : e \in endpoints, b \in bodies }

\* "Endpoint" values with the declaration prefix, well-formed and malformed
DeclarationEndpoints ==
    { <<"declaration", "/", "profile", "/", "abc123">>,
      <<"declaration", "/", "configuration", "/", "id2">>,
      <<"declaration", "/", "abc123">>,
      <<"declaration", "/">>,
      <<"declaration", "/", "/", "abc123">>,
      <<"declaration", "/", "profile", "/">> }

\* "Endpoint" values no handler is for
UnknownEndpoints ==
    { <<"bogus">>, <<>>, <<"declaration">>, <<"Status">>,
      <<"tokens", "/">>, <<"profile", "/", "abc123">> }

\* what the ID function may answer
StatusIDAnswers == { [id |-> "testStatusID", err |-> Nil],
                     [id |-> "", err |-> ErrorsNew("id failure")] }
NoStatusID == [id |-> "", err |-> Nil]

\* what the declaration store may answer to a retrieval
RetrievalAnswers == { [ret |-> "json", err |-> Nil],
                      [ret |-> NoData, err |-> ErrorsNew("store failure")] }
NoRetrieval == [ret |-> NoData, err |-> Nil]

\* what the status store, or a mux handler, may answer
Failures(text) == { Nil, ErrorsNew(text) }

\* one DeclarativeManagement call: its arguments, the collaborators'
\* answers and its outcome
DMCall(r, msg, handlerErr, idAns, storeErr, ans) ==
    [r |-> r, msg |-> msg, handlerErr |-> handlerErr, idAns |-> idAns,
     storeErr |-> storeErr, ans |-> ans,
     out |-> DeclarativeManagement(dma, r, msg, handlerErr, idAns, storeErr, ans)]

InitDM ==
    /\ svc = HubCMDService
    /\ tally = [id \in IDs |-> 0]
    /\ lastCall = NoCall
    /\ TallyIdle
    /\ HubIdle
    /\ EnqIdle
    /\ RestIdle
    /\ dma \in DMAdapters
    /\ dmCall = Nil

DMFrame ==
    UNCHANGED <<dma, tally, cmdVars, tallyVars, hubVars, enqVars, restVars>>

DoStatus ==
    \E body \in StatusBodies :
    \E r \in DMRequests({body, TestBody}), msg \in DMMessages({Str("status")}, {body}),
       handlerErr \in Failures("handler failure"),
       idAns \in (IF dma.statusIDFn THEN StatusIDAnswers ELSE {NoStatusID}),
       storeErr \in (IF dma.statusStore THEN Failures("store failure") ELSE {Nil}) :
        /\ dmCall' = Ptr(DMCall(Ptr(r), Ptr(msg), handlerErr, idAns, storeErr,
                                NoRetrieval))
        /\ DMFrame

DoTokens ==
    \E r \in DMRequests({}), msg \in DMMessages({Str("tokens")}, {TestBody}),
       ans \in RetrievalAnswers :
        /\ dmCall' = Ptr(DMCall(Ptr(r), Ptr(msg), Nil, NoStatusID, Nil, ans))
        /\ DMFrame

DoDeclarationItems ==
    \E r \in DMRequests({}),
       msg \in DMMessages({Str("declaration-items")}, {TestBody}),
       ans \in RetrievalAnswers :
        /\ dmCall' = Ptr(DMCall(Ptr(r), Ptr(msg), Nil, NoStatusID, Nil, ans))
        /\ DMFrame

DoDeclaration ==
    \E r \in DMRequests({}), msg \in DMMessages(DeclarationEndpoints, {TestBody}),
       ans \in RetrievalAnswers :
        /\ dmCall' = Ptr(DMCall(Ptr(r), Ptr(msg), Nil, NoStatusID, Nil, ans))
        /\ DMFrame

DoUnknownEndpoint ==
    \E r \in DMRequests({}), msg \in DMMessages(UnknownEndpoints, {TestBody}) :
        /\ dmCall' = Ptr(DMCall(Ptr(r), Ptr(msg), Nil, NoStatusID, Nil, NoRetrieval))
        /\ DMFrame

\* a call with a nil request, a nil message, or both
DoNilInput ==
    \E r \in {Nil} \cup { Ptr(x) : x \in DMRequests({}) },
       msg \in {Nil} \cup { Ptr(x) : x \in DMMessages({Str("status"), Str("tokens")},
                                                     {TestBody}) } :
        /\ r = Nil \/ msg = Nil
        /\ dmCall' = Ptr(DMCall(r, msg, Nil, NoStatusID, Nil, NoRetrieval))
        /\ DMFrame

NextDM ==
    \/ DoStatus
    \/ DoTokens
    \/ DoDeclarationItems
    \/ DoDeclaration
    \/ DoUnknownEndpoint
    \/ DoNilInput

SpecDM == InitDM /\ [][NextDM]_vars

-----------------------------------------------------------------------------
(* enqueue: the command enqueuer *)

\* an *api.APIResult, by what its Error() returns
APIResult(err) == [Error |-> err]

\* one call of ce.RawCommandEnqueueWithPush
RawCommandEnqueueWithPushCall(ctx, rawCommand, ids, noPush) ==
    [fn |-> "RawCommandEnqueueWithPush", ctx |-> ctx, rawCommand |-> rawCommand,
     ids |-> ids, noPush |-> noPush]

\* what an enqueuer call returns and does
EnqOutcome(err, calls, idCalls) == [err |-> err, calls |-> calls, idCalls |-> idCalls]

\* a slip in Enqueue: the result's aggregate error dropped
EnqueueIgnoringResult(e, ctx, ids, rawCmd, ans) ==
    EnqOutcome(IF ans.err # NilErr THEN Errorf("raw push enqueue", ans.err) ELSE NilErr,
               <<RawCommandEnqueueWithPushCall(ctx, rawCmd, ids, e.noPush)>>, 0)

\* Enqueue enqueues rawCmd to enrollment ids and sends an APNs push; ans is
\* what the collaborator answers: [r, err]
Enqueue(e, ctx, ids, rawCmd, ans) ==
    EnqOutcome(IF ans.err # NilErr THEN Errorf("raw push enqueue", ans.err)
               ELSE ans.r.Error,
               <<RawCommandEnqueueWithPushCall(ctx, rawCmd, ids, e.noPush)>>, 0)

\* a nil []byte command
NilCommand == <<>>

\* a slip in Push: the suppression test inverted
PushWhenSuppressed(e, ctx, ids, ans) ==
    IF ~e.noPush THEN EnqOutcome(NilErr, <<>>, 0)
    ELSE Enqueue(e, ctx, ids, NilCommand, ans)

\* Push sends APNs pushes
Push(e, ctx, ids, ans) ==
    IF e.noPush THEN EnqOutcome(NilErr, <<>>, 0)
    ELSE Enqueue(e, ctx, ids, NilCommand, ans)

\* notifier.MakeCommand(id, tokensJSON): the command's bytes, or an error
MakeCommand(id, tokensJSON, makeErr) ==
    [cmd |-> IF makeErr # NilErr THEN NilCommand
             ELSE <<"DeclarativeManagement", id, tokensJSON>>,
     err |-> makeErr]

\* a slip in EnqueueDMCommand: the command is built with a fixed identifier
\* instead of the one generated for the call
EnqueueDMCommandFixedID(e, ctx, ids, tokensJSON, id, makeErr, ans) ==
    LET m == MakeCommand(0, tokensJSON, makeErr)
    IN  IF m.err # NilErr
        THEN EnqOutcome(Errorf("making command", m.err), <<>>, 1)
        ELSE [Enqueue(e, ctx, ids, m.cmd, ans) EXCEPT !.idCalls = 1]

\* EnqueueDMCommand enqueues a Declarative Management MDM command; id is
\* what e.ider.ID() generates
EnqueueDMCommand(e, ctx, ids, tokensJSON, id, makeErr, ans) ==
    LET m == MakeCommand(id, tokensJSON, makeErr)
    IN  IF m.err # NilErr
        THEN EnqOutcome(Errorf("making command", m.err), <<>>, 1)
        ELSE [Enqueue(e, ctx, ids, m.cmd, ans) EXCEPT !.idCalls = 1]

\* SupportsMultiCommands returns true
SupportsMultiCommands == TRUE

-----------------------------------------------------------------------------
(* SpecEnqueue: callers use an Enqueue, one call at a time *)

\* the Enqueue values the methods are defined on: enqueue.New leaves noPush
\* false, and the struct allows it to be true
Enqueues == [noPush : BOOLEAN]

\* lists of enrollment IDs, up to MaxIDs long
IDLists == UNION { [1..n -> IDs] : n \in 0..MaxIDs }

\* raw commands a caller may enqueue
RawCommands == {<<"cmd1">>, <<"cmd2">>, NilCommand}

\* what the collaborator may answer: a result whose Error() is nil or not,
\* or an error (with a result or with none)
EnqueueAnswers ==
    { [r |-> APIResult(NilErr), err |-> NilErr],
      [r |-> APIResult(<<"push error">>), err |-> NilErr],
      [r |-> APIResult(<<"push error">>), err |-> <<"enqueue failure">>],
      [r |-> APIResult(NilErr), err |-> <<"enqueue failure">>] }

Contexts == {"ctx1", "ctx2"}

\* one enqueuer call: its arguments, the collaborator's answer, its outcome
EnqCall(fn, ctx, ids, rawCmd, ans, out) ==
    [fn |-> fn, ctx |-> ctx, ids |-> ids, rawCmd |-> rawCmd, ans |-> ans, out |-> out]

InitEnqueue ==
    /\ svc = HubCMDService
    /\ tally = [id \in IDs |-> 0]
    /\ lastCall = NoCall
    /\ TallyIdle
    /\ HubIdle
    /\ DMIdle
    /\ RestIdle
    /\ enq \in Enqueues
    /\ enqCall = <<>>

EnqFrame ==
    UNCHANGED <<enq, tally, cmdVars, tallyVars, hubVars, dmVars, restVars>>

DoEnqueue ==
    \E ctx \in Contexts, ids \in IDLists, rawCmd \in RawCommands, ans \in EnqueueAnswers :
        /\ enqCall' = <<EnqCall("Enqueue", ctx, ids, rawCmd, ans,
                                Enqueue(enq, ctx, ids, rawCmd, ans))>>
        /\ EnqFrame

DoPush ==
    \E ctx \in Contexts, ids \in IDLists, ans \in EnqueueAnswers :
        /\ enqCall' = <<EnqCall("Push", ctx, ids, NilCommand, ans,
                                Push(enq, ctx, ids, ans))>>
        /\ EnqFrame

DoEnqueueDMCommand ==
    \E ctx \in Contexts, ids \in IDLists, tokensJSON \in {"nil", "tokens"},
       makeErr \in {NilErr, <<"make command failure">>}, ans \in EnqueueAnswers :
        /\ enqCall' = <<EnqCall("EnqueueDMCommand", ctx, ids, <<tokensJSON>>, ans,
                                EnqueueDMCommand(enq, ctx, ids, tokensJSON, "uuid1",
                                                 makeErr, ans))>>
        /\ EnqFrame

NextEnqueue ==
    \/ DoEnqueue
    \/ DoPush
    \/ DoEnqueueDMCommand

SpecEnqueue == InitEnqueue /\ [][NextEnqueue]_vars

\* a slip in the constructor: pushes suppressed from the start
NewEnqueueSuppressed == [noPush |-> TRUE]

\* enqueue.New: the struct literal sets ce and ider and leaves noPush false
NewEnqueue == [noPush |-> FALSE]

\* SpecEnqueueNew: callers use the Enqueue the constructor returns
InitEnqueueNew ==
    /\ svc = HubCMDService
    /\ tally = [id \in IDs |-> 0]
    /\ lastCall = NoCall
    /\ TallyIdle
    /\ HubIdle
    /\ DMIdle
    /\ RestIdle
    /\ enq = NewEnqueue
    /\ enqCall = <<>>

SpecEnqueueNew == InitEnqueueNew /\ [][NextEnqueue]_vars

-----------------------------------------------------------------------------
(* Properties of the cmdservice handlers (Spec) *)

\* how many of calls are calls of fn
CountFn(calls, fn) == Cardinality({ i \in DOMAIN calls : calls[i].fn = fn })

\* the last call was a TokenUpdate with a tally store configured, whose
\* message parses to a NanoCMD TokenUpdate
ParsedTokenUpdateWithStore ==
    /\ lastCall.fn = "TokenUpdate"
    /\ svc.store
    /\ lastCall.m.MessageType = "TokenUpdate"
    /\ lastCall.m.Raw = "plist"

\* C1: for a TokenUpdate check-in with a tally store configured whose bytes
\* parse to a TokenUpdate, the tally is retrieved once for the request's
\* enrollment ID and every check-in event forwarded to the engine carries
\* Enrolling = TRUE (the wrapped message) exactly when the retrieved tally is
\* 1; for any other tally the plain TokenUpdate is forwarded, and it is
\* forwarded whenever the retrieval succeeded.
C1_EnrollingIffTallyIsOne ==
    ParsedTokenUpdateWithStore =>
        LET out == lastCall.out
            t   == lastCall.tallyRes
        IN  /\ Len(out.storeCalls) = 1
            /\ out.storeCalls[1].id = lastCall.r.ID
            /\ out.storeCalls[1].fn = "RetrieveTokenUpdateTally"
            /\ \A i \in DOMAIN out.engineCalls :
                  LET e == out.engineCalls[i]
                  IN  /\ e.fn = "MDMCheckinEvent"
                      /\ t.err = NilErr
                      /\ e.msg.Enrolling <=> (t.tally = 1)
                      /\ (t.tally = 1) <=> (e.msg.type = "TokenUpdateEnrolling")
                      /\ (t.tally # 1) <=> (e.msg.type = "TokenUpdate")
            /\ (t.err = NilErr /\ t.tally # 1) =>
                  /\ Len(out.engineCalls) = 1
                  /\ ~out.engineCalls[1].msg.Enrolling
            /\ (t.err = NilErr /\ t.tally = 1 /\ lastCall.valid) =>
                  /\ Len(out.engineCalls) = 1
                  /\ out.engineCalls[1].msg.Enrolling

\* C1 witness: a first TokenUpdate (tally 1) was forwarded with Enrolling
C1_Witness ==
    /\ ParsedTokenUpdateWithStore
    /\ lastCall.tallyRes.tally = 1
    /\ Len(lastCall.out.engineCalls) = 1
    /\ lastCall.out.engineCalls[1].msg.Enrolling

\* C2: a command report with Status "Idle" makes exactly one MDMIdleEvent
\* call and no MDMCommandResponseEvent call; any other Status makes exactly
\* one MDMCommandResponseEvent call, carrying the report's CommandUUID and raw
\* bytes, and no MDMIdleEvent call; whatever the engine answers.
C2_IdleRoutesToIdleEvent ==
    lastCall.fn = "CommandAndReportResults" =>
        LET calls == lastCall.out.engineCalls
        IN  IF lastCall.m.Status = "Idle"
            THEN /\ CountFn(calls, "MDMIdleEvent") = 1
                 /\ CountFn(calls, "MDMCommandResponseEvent") = 0
                 /\ Len(calls) = 1
            ELSE /\ CountFn(calls, "MDMCommandResponseEvent") = 1
                 /\ CountFn(calls, "MDMIdleEvent") = 0
                 /\ Len(calls) = 1
                 /\ calls[1].uuid = lastCall.m.CommandUUID
                 /\ calls[1].raw = lastCall.m.Raw

\* C2 witness: a non-Idle report whose engine call failed still made its one
\* MDMCommandResponseEvent call
C2_Witness ==
    /\ lastCall.fn = "CommandAndReportResults"
    /\ lastCall.m.Status = "Error"
    /\ lastCall.engErr # NilErr
    /\ CountFn(lastCall.out.engineCalls, "MDMCommandResponseEvent") = 1

\* the last call was an Idle report to which the engine answered "workflow
\* already started" (possibly wrapped)
IdleAlreadyStarted ==
    /\ lastCall.fn = "CommandAndReportResults"
    /\ lastCall.m.Status = "Idle"
    /\ ErrorsIs(lastCall.engErr, ErrWorkflowAlreadyStarted)

\* C3: when MDMIdleEvent reports "workflow already started": with masking
\* enabled the call returns no error and no command and logs the condition;
\* with masking disabled the call returns an error that wraps the condition
\* and logs nothing.
C3_MaskAlreadyStarted ==
    IdleAlreadyStarted =>
        LET out == lastCall.out
        IN  IF svc.maskStartedWorkflow
            THEN /\ out.err = NilErr
                 /\ out.cmd = "nil"
                 /\ Len(out.logs) = 1
                 /\ out.logs[1].msg = lastCall.engErr
            ELSE /\ out.err # NilErr
                 /\ ErrorsIs(out.err, ErrWorkflowAlreadyStarted)
                 /\ out.logs = <<>>

\* C3 witness: the condition was masked and logged
C3_Witness ==
    /\ IdleAlreadyStarted
    /\ svc.maskStartedWorkflow
    /\ lastCall.out.err = NilErr
    /\ Len(lastCall.out.logs) = 1

\* the engine was called and answered with an error
EngineFailed ==
    /\ lastCall.out.engineCalls # <<>>
    /\ lastCall.engErr # NilErr

\* C4: masking is selective. An engine error is kept from the caller only if
\* masking is enabled, the call is an Idle report and the error is "workflow
\* already started"; every other engine error, from an Idle event or from a
\* command-response event (the sentinel included), is returned wrapped.
C4_MaskingIsSelective ==
    EngineFailed =>
        IF /\ svc.maskStartedWorkflow
           /\ lastCall.fn = "CommandAndReportResults"
           /\ lastCall.m.Status = "Idle"
           /\ ErrorsIs(lastCall.engErr, ErrWorkflowAlreadyStarted)
        THEN lastCall.out.err = NilErr
        ELSE /\ lastCall.out.err # NilErr
             /\ Tail(lastCall.out.err) = lastCall.engErr

\* C4 witness: with masking enabled, "workflow already started" from a
\* command-response event was returned as an error
C4_Witness ==
    /\ svc.maskStartedWorkflow
    /\ lastCall.fn = "CommandAndReportResults"
    /\ lastCall.m.Status = "Acknowledged"
    /\ ErrorsIs(lastCall.engErr, ErrWorkflowAlreadyStarted)
    /\ ErrorsIs(lastCall.out.err, ErrWorkflowAlreadyStarted)

-----------------------------------------------------------------------------
(* Properties of concurrent TokenUpdates (SpecTally) *)

\* call c finished and its event carried Enrolling
ForwardedEnrolling(c) ==
    /\ pc[c] = "done"
    /\ result[c].out.engineCalls # <<>>
    /\ result[c].out.engineCalls[1].msg.Enrolling

\* call c finished and its read of the tally returned 1
ObservedOne(c) ==
    /\ pc[c] = "done"
    /\ result[c].tallyRes.err = NilErr
    /\ result[c].tallyRes.tally = 1

\* the finished calls for enrollment id
DoneFor(id) == { c \in Calls : pc[c] = "done" /\ reqOf[c].ID = id }

\* C5: first-TokenUpdate detection rests only on each call's own unlocked
\* read of the tally: a call forwards Enrolling exactly when its own read
\* returned 1 (and the wrapper was valid), so for one enrollment the number
\* of Enrolling events equals the number of calls that observed 1, which
\* concurrency lets be none (C5_Witness) or more than one
\* (C5_MoreThanOneObserved), not exactly one.
C5_EnrollingFollowsOwnRead ==
    \A id \in IDs :
        /\ \A c \in DoneFor(id) :
              ForwardedEnrolling(c) <=> (ObservedOne(c) /\ result[c].valid)
        /\ Cardinality({ c \in DoneFor(id) : ForwardedEnrolling(c) })
              <= Cardinality({ c \in DoneFor(id) : ObservedOne(c) })
        /\ \A c \in DoneFor(id) :
              result[c].tallyRes.err = NilErr =>
                  result[c].tallyRes.tally \in 1..Cardinality(
                      { d \in Calls : reqOf[d].ID = id
                                      /\ pc[d] \in {"adapter", "done"} })

\* C5 witness: two concurrent TokenUpdates for one enrollment that started at
\* tally 0 both read the tally, both forwarded their event, and neither
\* observed 1 nor forwarded Enrolling
C5_Witness ==
    \E id \in IDs :
        /\ Cardinality(DoneFor(id)) >= 2
        /\ \A c \in DoneFor(id) :
              /\ result[c].tallyRes.err = NilErr
              /\ result[c].out.engineCalls # <<>>
              /\ ~ObservedOne(c)
              /\ ~ForwardedEnrolling(c)

\* the other failure of exactly-once: two calls for one enrollment both
\* forwarded Enrolling (the store's load and write of two calls interleaved)
C5_MoreThanOneObserved ==
    \E id \in IDs :
        Cardinality({ c \in DoneFor(id) : ForwardedEnrolling(c) }) >= 2

\* the guarantee this layer does not give: once every TokenUpdate for an
\* enrollment finished with its event forwarded, exactly one carried Enrolling
ExactlyOneEnrolling ==
    \A id \in IDs :
        (/\ DoneFor(id) # {}
         /\ \A c \in Calls : reqOf[c].ID = id => pc[c] = "done"
         /\ \A c \in DoneFor(id) : result[c].out.engineCalls # <<>>)
        => Cardinality({ c \in DoneFor(id) : ForwardedEnrolling(c) }) = 1

-----------------------------------------------------------------------------
(* Properties of nanohub.New (SpecHub) *)

\* New was called
Called == hub # <<>>

\* New was called and returned an error and no hub
Failed == Called /\ hub[1].err # NilErr /\ hub[1].hub = NilHub

\* New was called and returned a hub
Built == Called /\ hub[1].err = NilErr /\ hub[1].hub # NilHub

ExtractionMiddlewares ==
    {"CertExtractMdmSignatureMiddleware", "CertExtractPEMHeaderMiddleware",
     "CertExtractTLSMiddleware"}

Handlers == {"CheckinAndCommandHandler", "CommandAndReportResultsHandler",
             "CheckinHandler"}

\* the handlers of the built hub that authMW was applied to
AuthenticatedHandlers ==
    {hub[1].hub[1].nanomdm} \cup
    (IF hub[1].hub[1].checkin # NilHandler THEN {hub[1].hub[1].checkin} ELSE {})

\* C6: in every hub New builds, the authentication wrapper of a handler is
\* exactly one certificate-extraction middleware (Mdm-Signature extraction if
\* mdmSignature is set, else header extraction if a header name is set, else
\* mTLS extraction), which wraps the certificate-verification middleware,
\* which directly wraps the handler.
C6_AuthWrapperOrder ==
    Built =>
        \A h \in AuthenticatedHandlers :
            /\ Len(h) = 3
            /\ h[1].type = (IF config.authConfig.mdmSignature
                            THEN "CertExtractMdmSignatureMiddleware"
                            ELSE IF config.authConfig.signatureHeader # ""
                            THEN "CertExtractPEMHeaderMiddleware"
                            ELSE "CertExtractTLSMiddleware")
            /\ h[1].type = "CertExtractPEMHeaderMiddleware"
                  => h[1].arg = config.authConfig.signatureHeader
            /\ h[2].type = "CertVerifyMiddleware"
            /\ h[3].type \in Handlers
            /\ Cardinality({ i \in DOMAIN h : h[i].type \in ExtractionMiddlewares }) = 1

\* C6 witness: a hub with a separate check-in handler was built with header
\* extraction around both handlers
C6_Witness ==
    /\ Built
    /\ hub[1].hub[1].checkin # NilHandler
    /\ hub[1].hub[1].checkin[1].type = "CertExtractPEMHeaderMiddleware"
    /\ hub[1].hub[1].nanomdm[1].type = "CertExtractPEMHeaderMiddleware"

\* the service chain the built hub's server handler serves
BuiltChain == hub[1].hub[1].nanomdm[Len(hub[1].hub[1].nanomdm)].svc

\* how many supplementary services the config asks for
SupplementaryCount ==
    (IF config.cmdStore THEN 1 ELSE 0)
    + (IF config.dmStore /\ config.dmRmSets THEN 1 ELSE 0)
    + Len(config.webhookURLs)

\* C7: the service chain New builds is, outer to inner: the dump wrapper (only
\* with a dump writer), the certificate-authorization wrapper (always), then
\* the fan-out (only with at least one supplementary service), else the core
\* service. The fan-out list holds the core service first, then the
\* supplementary services in the order of New's list: the command-workflow
\* adapter, the sets remover, and the webhooks in the order they were given.
C7_ServiceChainOrder ==
    Built =>
        LET chain == BuiltChain
            k     == IF config.dumpWriter THEN 2 ELSE 1
        IN  /\ Len(chain) = k + 1
            /\ config.dumpWriter => chain[1].type = "dump"
            /\ chain[k].type = "certauth"
            /\ IF SupplementaryCount >= 1
               THEN LET l    == chain[k + 1].svcs
                        cmd  == IF config.cmdStore THEN 1 ELSE 0
                        rm   == IF config.dmStore /\ config.dmRmSets THEN 1 ELSE 0
                    IN  /\ chain[k + 1].type = "multi"
                        /\ Len(l) = 1 + SupplementaryCount
                        /\ l[1].type = "nanomdm"
                        /\ \A i \in 2..Len(l) : l[i].type # "nanomdm"
                        /\ cmd = 1 => l[2].type = "cmdservice"
                        /\ rm = 1 => l[2 + cmd].type = "setsremover"
                        /\ \A i \in 1..Len(config.webhookURLs) :
                              /\ l[1 + cmd + rm + i].type = "webhook"
                              /\ l[1 + cmd + rm + i].arg = config.webhookURLs[i]
               ELSE /\ chain[k + 1].type = "nanomdm"
                    /\ chain[k + 1].svcs = <<>>

\* C7 witness: a hub was built with every layer: dump, certauth, and a
\* fan-out over the core service, the adapter, the sets remover and a webhook
C7_Witness ==
    /\ Built
    /\ Len(BuiltChain) = 3
    /\ BuiltChain[1].type = "dump"
    /\ BuiltChain[3].type = "multi"
    /\ Len(BuiltChain[3].svcs) = 4
    /\ BuiltChain[3].svcs[1].type = "nanomdm"
    /\ BuiltChain[3].svcs[2].type = "cmdservice"
    /\ BuiltChain[3].svcs[3].type = "setsremover"
    /\ BuiltChain[3].svcs[4].type = "webhook"

\* C8: New called with the combined handler disabled and the separate
\* check-in handler not enabled returns an error and no hub, whatever the
\* other options are.
C8_SplitWithoutCheckinFails ==
    (Called /\ config.noCombined /\ ~config.checkin) => Failed

\* C8 witness: New refused such a config
C8_Witness ==
    /\ Failed
    /\ config.noCombined
    /\ ~config.checkin
    /\ hub[1].err = <<"config precludes checkin support">>

\* C9: New called with an explicit verifier together with non-empty root PEM
\* bytes or non-empty intermediate PEM bytes returns an error and no hub, in
\* whatever order the options ran.
C9_VerifierWithPEMsFails ==
    (/\ Called
     /\ config.verifier # "nil"
     /\ (config.rootsPEM # "" \/ config.intsPEM # "")) => Failed

\* C9 witness: New refused an explicit verifier given with intermediates only
C9_Witness ==
    /\ Failed
    /\ config.verifier # "nil"
    /\ config.rootsPEM = ""
    /\ config.intsPEM # ""
    /\ hub[1].err = <<"roots and intermediates present with explicit verifier">>

\* option name was among the options given
GivenAuth(name) == \E i \in DOMAIN authOrder : authOrder[i] = name

\* C10 as claimed: whenever both WithCertHeader and WithMdmSignature are
\* among the options given to New, New returns an error and no hub.
C10_BothOptionsGivenFails ==
    (Called /\ GivenAuth("WithCertHeader") /\ GivenAuth("WithMdmSignature"))
        => Failed

\* C10 amended: New returns an error and no hub whenever, after the options
\* ran, both a signature header and Mdm-Signature mode are set, which is when
\* WithCertHeader was given and the last of the two options given was
\* WithMdmSignature; when the last one given was WithCertHeader the two are
\* not in conflict and New does not fail for it.
C10_BothModesSetFails ==
    Called =>
        /\ (config.authConfig.signatureHeader # "" /\ config.authConfig.mdmSignature)
              => Failed
        /\ (/\ GivenAuth("WithCertHeader")
            /\ authOrder[Len(authOrder)] = "WithMdmSignature") => Failed
        /\ (/\ GivenAuth("WithMdmSignature")
            /\ authOrder[Len(authOrder)] = "WithCertHeader")
              => /\ ~config.authConfig.mdmSignature
                 /\ hub[1].err #
                      <<"signature header and Mdm-Signature are mutually exclusive">>

\* C10 witness: New refused WithCertHeader followed by WithMdmSignature
C10_Witness ==
    /\ Failed
    /\ authOrder = <<"WithCertHeader", "WithMdmSignature">>
    /\ hub[1].err = <<"signature header and Mdm-Signature are mutually exclusive">>

\* the handler at the bottom of an HTTP stack, under its middleware
HandlerOf(stack) == stack[Len(stack)].type

\* C11: in every hub New builds, the server handler serves both check-in and
\* command-report traffic when WithoutServerCombinedHandler was not given
\* and only command-report traffic when it was; the separate check-in
\* handler is non-nil exactly when WithCheckinHandler was given, and the
\* migration handler is non-nil exactly when WithMigration was given (each
\* of the two, when present, serves check-in traffic only).
C11_HandlerSurfaces ==
    Built =>
        LET h == hub[1].hub[1]
        IN  /\ Serves(HandlerOf(h.nanomdm)) =
                  (IF "WithoutServerCombinedHandler" \in given
                   THEN {"command"} ELSE {"checkin", "command"})
            /\ (h.checkin # NilHandler) <=> ("WithCheckinHandler" \in given)
            /\ (h.migration # NilHandler) <=> ("WithMigration" \in given)
            /\ h.checkin # NilHandler => Serves(HandlerOf(h.checkin)) = {"checkin"}
            /\ h.migration # NilHandler
                  => Serves(HandlerOf(h.migration)) = {"checkin"}

\* C11 witness: a split hub was built: the server handler takes command
\* reports only, a separate check-in handler exists, no migration handler
C11_Witness ==
    /\ Built
    /\ {"WithoutServerCombinedHandler", "WithCheckinHandler"} \subseteq given
    /\ "WithMigration" \notin given
    /\ HandlerOf(hub[1].hub[1].nanomdm) = "CommandAndReportResultsHandler"
    /\ hub[1].hub[1].checkin # NilHandler
    /\ hub[1].hub[1].migration = NilHandler

-----------------------------------------------------------------------------
(* Properties of the declarative-management adapter (SpecDM) *)

\* a DeclarativeManagement call was made with a request and a message
DMCalled == dmCall # Nil /\ dmCall[1].r # Nil /\ dmCall[1].msg # Nil

\* the request, the "Endpoint" and the outcome of the call
DMReq == dmCall[1].r[1]
DMEndpoint == dmCall[1].msg[1].Endpoint
DMOut == dmCall[1].out

\* the "Endpoint" starts with "declaration/"
IsDeclarationEndpoint(e) == Len(e) >= 2 /\ e[1] = "declaration" /\ e[2] = "/"

\* the "Endpoint" is none of the four the adapter serves
IsUnknownEndpoint(e) ==
    /\ e \notin {<<"status">>, <<"tokens">>, <<"declaration-items">>}
    /\ ~IsDeclarationEndpoint(e)

\* C12: a DeclarativeManagement call whose Endpoint is not "status",
\* "tokens" or "declaration-items" and does not start with "declaration/"
\* returns no data and an error that wraps ErrUnknownDMEndpoint and carries
\* the Endpoint value.
C12_UnknownEndpointFails ==
    (DMCalled /\ IsUnknownEndpoint(DMEndpoint)) =>
        /\ DMOut.err # Nil
        /\ DMErrorsIs(DMOut.err, ErrUnknownDMEndpoint)
        /\ \E i \in DOMAIN DMOut.err : DMOut.err[i].arg = DMEndpoint
        /\ DMOut.ret = NoData

\* C12 witness: a call with Endpoint "bogus" failed with the sentinel wrapped
C12_Witness ==
    /\ DMCalled
    /\ DMEndpoint = <<"bogus">>
    /\ DMErrorsIs(DMOut.err, ErrUnknownDMEndpoint)
    /\ DMOut.err[1].arg = <<"bogus">>

\* the suffix after "declaration/"
DeclarationSuffix == SubSeq(DMEndpoint, 3, Len(DMEndpoint))

\* a suffix of the form {type}/{id}
WellFormedSuffix(s) == Len(s) = 3 /\ s[1] # "/" /\ s[2] = "/" /\ s[3] # "/"

\* C13: a call with Endpoint "declaration/{type}/{id}" makes exactly one
\* store call, the single-declaration retrieval, with the declaration
\* identifier {id}, the declaration type {type} and the request's
\* enrollment ID, in the store's parameter order (declarationID,
\* declarationType, enrollmentID), and returns the store's bytes; a call
\* whose suffix after "declaration/" is malformed fails with a path parse
\* error that names the suffix, and makes no store call.
C13_DeclarationDispatch ==
    (DMCalled /\ IsDeclarationEndpoint(DMEndpoint)) =>
        IF WellFormedSuffix(DeclarationSuffix)
        THEN /\ Len(DMOut.storeCalls) = 1
             /\ DMOut.storeCalls[1].fn = "RetrieveEnrollmentDeclarationJSON"
             /\ DMOut.storeCalls[1].args =
                    << <<DeclarationSuffix[3]>>, <<DeclarationSuffix[1]>>,
                       <<DMReq.ID>> >>
             /\ DMOut.ret = dmCall[1].ans.ret
             /\ (DMOut.err = Nil) <=> (dmCall[1].ans.err = Nil)
        ELSE /\ DMOut.err # Nil
             /\ DMOut.err[1].text = "parsing declaration path"
             /\ DMOut.err[1].arg = DeclarationSuffix
             /\ DMOut.storeCalls = <<>>
             /\ DMOut.ret = NoData

\* C13 witness: "declaration/profile/abc123" retrieved the declaration with
\* identifier abc123 and type profile for the enrollment
C13_Witness ==
    /\ DMCalled
    /\ DMEndpoint = <<"declaration", "/", "profile", "/", "abc123">>
    /\ DMOut.err = Nil
    /\ DMOut.storeCalls[1].args = << <<"abc123">>, <<"profile">>, <<DMReq.ID>> >>

\* C13, the malformed case: "declaration/abc123" failed before the store
C13_MalformedReached ==
    /\ DMCalled
    /\ DMEndpoint = <<"declaration", "/", "abc123">>
    /\ DMOut.err # Nil
    /\ DMOut.storeCalls = <<>>

\* the storage operation an "Endpoint" is served from
StorageOperation(e) ==
    IF e = <<"status">> THEN "StoreDeclarationStatus"
    ELSE IF e = <<"tokens">> THEN "RetrieveTokensJSON"
    ELSE IF e = <<"declaration-items">> THEN "RetrieveDeclarationItemsJSON"
    ELSE IF IsDeclarationEndpoint(e) THEN "RetrieveEnrollmentDeclarationJSON"
    ELSE "none"

\* C14: every call makes at most one storage call, and only the one of its
\* Endpoint's handler, for the request's enrollment ID; "tokens" and
\* "declaration-items" make exactly one and return the store's bytes; only
\* a "status" call runs the ID function or mux handlers; a call with a nil
\* request or a nil message, or with an unknown Endpoint, fails without any
\* storage call.
C14_StrictDispatch ==
    dmCall # Nil =>
        IF dmCall[1].r = Nil \/ dmCall[1].msg = Nil
        THEN /\ dmCall[1].out.err # Nil
             /\ dmCall[1].out.storeCalls = <<>>
             /\ dmCall[1].out.idFnCalls = <<>>
             /\ dmCall[1].out.ret = NoData
        ELSE /\ Len(DMOut.storeCalls) <= 1
             /\ \A i \in DOMAIN DMOut.storeCalls :
                    /\ DMOut.storeCalls[i].fn = StorageOperation(DMEndpoint)
                    /\ DMOut.storeCalls[i].args[Len(DMOut.storeCalls[i].args)]
                          = <<DMReq.ID>>
             /\ DMEndpoint \in {<<"tokens">>, <<"declaration-items">>}
                   => /\ Len(DMOut.storeCalls) = 1
                      /\ DMOut.storeCalls[1].args = << <<DMReq.ID>> >>
                      /\ DMOut.ret = dmCall[1].ans.ret
             /\ DMEndpoint # <<"status">>
                   => /\ DMOut.idFnCalls = <<>>
                      /\ DMOut.customRan = <<>>
                      /\ DMOut.mux = Nil /\ DMOut.status = Nil
             /\ IsUnknownEndpoint(DMEndpoint)
                   => DMOut.err # Nil /\ DMOut.storeCalls = <<>>

\* C14 witness: a "declaration-items" call made the declaration-items
\* retrieval, and nothing else, and returned its bytes
C14_Witness ==
    /\ DMCalled
    /\ DMEndpoint = <<"declaration-items">>
    /\ Len(DMOut.storeCalls) = 1
    /\ DMOut.storeCalls[1].fn = "RetrieveDeclarationItemsJSON"
    /\ DMOut.ret = "json"

\* C14, the nil case: a call with a nil request failed without storage access
C14_NilReached ==
    /\ dmCall # Nil
    /\ dmCall[1].r = Nil
    /\ dmCall[1].out.err = ErrorsNew("nil request")

\* a "status" call was made with a request and a message
StatusCalled == DMCalled /\ DMEndpoint = <<"status">>

\* the bytes a status call parses: those of the report the context
\* carries, else the message's Data
ParsedBody ==
    IF DMReq.ctx.status # Nil THEN DMReq.ctx.status[1].Raw
    ELSE dmCall[1].msg[1].Data

\* the top-level paths of the parsed bytes that have a handler: the
\* caller's handler on ".test", if the context carries the caller's mux, and
\* the built-in ones
PathHandled(k) ==
    \/ k \in {".StatusItems", ".Errors"}
    \/ DMReq.ctx.mux # Nil /\ k = ".test"

HandledKeys == { i \in DOMAIN ParsedBody.keys : PathHandled(ParsedBody.keys[i]) }
UnhandledKeys == { i \in DOMAIN ParsedBody.keys : ~PathHandled(ParsedBody.keys[i]) }

\* parsing succeeds: the bytes are JSON and no handler that runs fails
ParseSucceeds ==
    /\ ParsedBody.json
    /\ dmCall[1].handlerErr = Nil \/ HandledKeys = {}

\* the status report the call worked on
DMReport == DMOut.status[1]

\* C15: a status call whose context carries a mux works on that mux, so the
\* handler the caller registered on ".test" runs when the parsed bytes have
\* that path; a status call whose context carries a status report works on
\* that report, which, once parsing succeeded, holds the values the
\* built-in handlers parsed and, with an ID function configured, the ID the
\* function returned; a status call returns no data.
C15_ContextObjectsReused ==
    StatusCalled =>
        /\ DMOut.ret = NoData
        /\ DMReq.ctx.mux # Nil =>
              /\ DMOut.mux[1].owner = "caller"
              /\ (/\ ParsedBody.json
                  /\ \E i \in DOMAIN ParsedBody.keys : ParsedBody.keys[i] = ".test")
                    => DMOut.customRan = <<".test">>
        /\ DMReq.ctx.mux = Nil => DMOut.customRan = <<>>
        /\ DMReq.ctx.status # Nil =>
              /\ DMReport.owner = "caller"
              /\ ParseSucceeds =>
                    /\ (\E i \in DOMAIN ParsedBody.keys :
                            ParsedBody.keys[i] = ".StatusItems")
                          => DMReport.Values =
                               <<[Path |-> ".StatusItems.device.identifier.udid",
                                  Value |-> "testUUID"]>>
                    /\ dma.statusIDFn => DMReport.ID = dmCall[1].idAns.id
                    /\ \A i \in DOMAIN DMOut.idFnCalls :
                          DMOut.idFnCalls[i].status = "caller"
                    /\ \A i \in DOMAIN DMOut.storeCalls :
                          DMOut.storeCalls[i].status[1].owner = "caller"

\* C15 witness: TestStatus: the caller's handler on ".test" ran, and the
\* caller's report holds the udid value and the ID "testStatusID"
C15_Witness ==
    /\ StatusCalled
    /\ dma = [statusStore |-> FALSE, statusIDFn |-> TRUE]
    /\ DMReq.ctx.mux # Nil /\ DMReq.ctx.status # Nil
    /\ dmCall[1].msg[1].Data = TestBody /\ ParsedBody = TestBody
    /\ DMOut.err = Nil /\ DMOut.ret = NoData
    /\ DMOut.customRan = <<".test">>
    /\ DMReport.owner = "caller"
    /\ DMReport.ID = "testStatusID"
    /\ DMReport.Values = <<[Path |-> ".StatusItems.device.identifier.udid",
                            Value |-> "testUUID"]>>

\* the error a status call returns for a storage failure
StoringStatusError == DMErrorf("storing status", <<>>, dmCall[1].storeErr)

\* C16: in a status call the report is stored, by exactly one store call
\* for the request's enrollment ID, exactly when a status store is
\* configured and parsing succeeded. Without a status store the parsing
\* still runs and the call succeeds; with one, a storage failure is
\* returned wrapped and a success returns nil; a parse failure returns an
\* error and stores nothing.
C16_StatusPersistence ==
    StatusCalled =>
        /\ (Len(DMOut.storeCalls) = 1) <=> (dma.statusStore /\ ParseSucceeds)
        /\ Len(DMOut.storeCalls) <= 1
        /\ \A i \in DOMAIN DMOut.storeCalls :
              /\ DMOut.storeCalls[i].fn = "StoreDeclarationStatus"
              /\ DMOut.storeCalls[i].args = << <<DMReq.ID>> >>
        /\ (ParseSucceeds /\ ~dma.statusStore) =>
              /\ DMOut.err = Nil
              /\ DMOut.mux[1].builtin
              /\ Len(DMOut.customRan) =
                    Cardinality({ i \in DOMAIN ParsedBody.keys :
                                    DMReq.ctx.mux # Nil /\ ParsedBody.keys[i] = ".test" })
        /\ (ParseSucceeds /\ dma.statusStore) =>
              DMOut.err = (IF dmCall[1].storeErr # Nil THEN StoringStatusError ELSE Nil)
        /\ ~ParseSucceeds =>
              /\ DMOut.err # Nil
              /\ DMOut.err[1].text = "parsing status"

\* C16 witness: with a status store configured, a parsed report was handed
\* to the store, which failed, and the failure was returned
C16_Witness ==
    /\ StatusCalled
    /\ dma.statusStore
    /\ ParseSucceeds
    /\ dmCall[1].storeErr # Nil
    /\ Len(DMOut.storeCalls) = 1
    /\ DMOut.err = StoringStatusError

\* C16, the other cases: no store configured; a parse failure with a store
C16_NoStoreReached ==
    StatusCalled /\ ~dma.statusStore /\ ParseSucceeds /\ DMOut.err = Nil
       /\ DMOut.customRan = <<".test">>

C16_ParseFailureReached ==
    StatusCalled /\ dma.statusStore /\ ~ParseSucceeds /\ DMOut.storeCalls = <<>>

\* C17: in a status call with an ID function configured, the function is
\* called once when parsing succeeded (and not at all when it failed), and
\* when the function fails the call goes on: the report is handed to the
\* status store if one is configured, and the call returns what the store
\* result makes it return, nil without a store.
C17_IDFailureDoesNotAbort ==
    (StatusCalled /\ dma.statusIDFn) =>
        /\ Len(DMOut.idFnCalls) = (IF ParseSucceeds THEN 1 ELSE 0)
        /\ \A i \in DOMAIN DMOut.idFnCalls : DMOut.idFnCalls[i].id = DMReq.ID
        /\ (ParseSucceeds /\ dmCall[1].idAns.err # Nil) =>
              /\ Len(DMOut.storeCalls) = (IF dma.statusStore THEN 1 ELSE 0)
              /\ DMOut.err = (IF dma.statusStore /\ dmCall[1].storeErr # Nil
                              THEN StoringStatusError ELSE Nil)
              /\ \E i \in DOMAIN DMOut.logs : DMOut.logs[i].msg = "generate status id"

\* C17 witness: the ID function failed, the report was stored and the call
\* succeeded
C17_Witness ==
    /\ StatusCalled
    /\ dma = [statusStore |-> TRUE, statusIDFn |-> TRUE]
    /\ ParseSucceeds
    /\ dmCall[1].idAns.err # Nil
    /\ Len(DMOut.idFnCalls) = 1
    /\ Len(DMOut.storeCalls) = 1
    /\ DMOut.err = Nil

\* the parsed bytes without the paths nothing handles
HandledOnly(body) ==
    LET IsHandled(k) == PathHandled(k)
    IN  [body EXCEPT !.keys = SelectSeq(body.keys, IsHandled)]

\* the same status call, on bytes without the unhandled paths
SameCallHandledOnly ==
    DeclarativeManagement(
        dma,
        Ptr([DMReq EXCEPT !.ctx.status =
                IF @ = Nil THEN Nil
                ELSE Ptr([@[1] EXCEPT !.Raw = HandledOnly(ParsedBody)])]),
        Ptr([dmCall[1].msg[1] EXCEPT !.Data = HandledOnly(@)]),
        dmCall[1].handlerErr, dmCall[1].idAns, dmCall[1].storeErr, dmCall[1].ans)

\* C18: a status call whose parsed bytes have top-level paths that no
\* handler consumes logs each of them as an unhandled status path and does
\* not fail for it: the error returned, the ID function call, the ID
\* stamped, the parsed values and the store call are those of the same call
\* on bytes without these paths.
C18_UnhandledPathsNotAFailure ==
    (StatusCalled /\ ParsedBody.json /\ UnhandledKeys # {}) =>
        /\ ParseSucceeds =>
              \A i \in UnhandledKeys :
                 \E j \in DOMAIN DMOut.logs :
                    /\ DMOut.logs[j].msg = "unhandled status path"
                    /\ DMOut.logs[j].path = ParsedBody.keys[i]
        /\ DMOut.err = SameCallHandledOnly.err
        /\ DMOut.idFnCalls = SameCallHandledOnly.idFnCalls
        /\ Len(DMOut.storeCalls) = Len(SameCallHandledOnly.storeCalls)
        /\ DMReport.ID = SameCallHandledOnly.status[1].ID
        /\ DMReport.Values = SameCallHandledOnly.status[1].Values
        /\ (ParseSucceeds /\ dmCall[1].handlerErr = Nil)
              => DMOut.err = (IF dma.statusStore /\ dmCall[1].storeErr # Nil
                              THEN StoringStatusError ELSE Nil)

\* C18 witness: a body with the unhandled path ".unknown" was parsed, the
\* path was logged, and the report was stamped and stored
C18_Witness ==
    /\ StatusCalled
    /\ dma = [statusStore |-> TRUE, statusIDFn |-> TRUE]
    /\ ParsedBody = [json |-> TRUE, keys |-> <<".StatusItems", ".unknown">>]
    /\ DMOut.err = Nil
    /\ \E j \in DOMAIN DMOut.logs :
          DMOut.logs[j].msg = "unhandled status path" /\ DMOut.logs[j].path = ".unknown"
    /\ Len(DMOut.idFnCalls) = 1
    /\ Len(DMOut.storeCalls) = 1
    /\ DMReport.ID = "testStatusID"

-----------------------------------------------------------------------------
(* Properties of the command enqueuer (SpecEnqueue) *)

\* the last enqueuer call was a call of fn
EnqCalled(fn) == enqCall # <<>> /\ enqCall[1].fn = fn

\* C19: Enqueue(ctx, ids, rawCmd) makes exactly one RawCommandEnqueueWithPush
\* call, with rawCmd and the whole list ids, and returns nil exactly when
\* that call returned no error and the result's Error() is nil; an error of
\* the call is returned wrapped, the result's error is returned as it is.
C19_EnqueueOutcome ==
    EnqCalled("Enqueue") =>
        LET c == enqCall[1]
        IN  /\ Len(c.out.calls) = 1
            /\ c.out.calls[1].fn = "RawCommandEnqueueWithPush"
            /\ c.out.calls[1].rawCommand = c.rawCmd
            /\ c.out.calls[1].ids = c.ids
            /\ c.out.calls[1].noPush = enq.noPush
            /\ (c.out.err = NilErr) <=> (c.ans.err = NilErr /\ c.ans.r.Error = NilErr)
            /\ c.ans.err # NilErr => c.out.err = <<"raw push enqueue">> \o c.ans.err
            /\ c.ans.err = NilErr => c.out.err = c.ans.r.Error

\* C19 witness: the call succeeded for two enrollments, the result carried
\* an error, and Enqueue returned that error
C19_Witness ==
    /\ EnqCalled("Enqueue")
    /\ Len(enqCall[1].ids) = 2
    /\ enqCall[1].ans.err = NilErr
    /\ enqCall[1].ans.r.Error = <<"push error">>
    /\ enqCall[1].out.err = <<"push error">>
    /\ Len(enqCall[1].out.calls) = 1

\* C20: Push(ctx, ids) on an Enqueue whose noPush is set makes no call to
\* the collaborator and returns nil; on one whose noPush is not set it
\* makes exactly one RawCommandEnqueueWithPush call, with a nil command and
\* the list ids.
C20_PushOutcome ==
    EnqCalled("Push") =>
        LET c == enqCall[1]
        IN  IF enq.noPush
            THEN c.out.calls = <<>> /\ c.out.err = NilErr
            ELSE /\ Len(c.out.calls) = 1
                 /\ c.out.calls[1].fn = "RawCommandEnqueueWithPush"
                 /\ c.out.calls[1].rawCommand = NilCommand
                 /\ c.out.calls[1].ids = c.ids
                 /\ c.out.calls[1].noPush = FALSE

\* C20 witness: a Push for two enrollments made the one call, with a nil
\* command
C20_Witness ==
    /\ EnqCalled("Push")
    /\ ~enq.noPush
    /\ Len(enqCall[1].ids) = 2
    /\ Len(enqCall[1].out.calls) = 1
    /\ enqCall[1].out.calls[1].rawCommand = NilCommand

\* C20, the suppressed case: a Push on an Enqueue with noPush set did nothing
C20_SuppressedReached ==
    /\ EnqCalled("Push")
    /\ enq.noPush
    /\ Len(enqCall[1].ids) = 2
    /\ enqCall[1].out.calls = <<>>
    /\ enqCall[1].out.err = NilErr

-----------------------------------------------------------------------------
(* SpecNotify: concurrent EnqueueDMCommand calls on one constructed        *)
(* enqueuer. Each call first asks the IDer for an identifier, then builds  *)
(* the command and enqueues it; the calls interleave between the two.      *)

\* the identifiers the IDer can generate
UUIDs == 1..MaxUUIDs

\* IDer.ID: "generates a unique identifier": one not generated before
IderID(issued) == UUIDs \ issued

NoNotifyCall ==
    [ctx |-> "none", ids |-> <<>>, tokensJSON |-> "none", makeErr |-> NilErr,
     ans |-> [r |-> APIResult(NilErr), err |-> NilErr],
     out |-> EnqOutcome(NilErr, <<>>, 0)]

\* what the collaborator answers in SpecNotify
NotifyAnswers ==
    { [r |-> APIResult(NilErr), err |-> NilErr],
      [r |-> APIResult(NilErr), err |-> <<"enqueue failure">>] }

InitNotify ==
    /\ svc = HubCMDService
    /\ tally = [id \in IDs |-> 0]
    /\ lastCall = NoCall
    /\ TallyIdle
    /\ HubIdle
    /\ DMIdle
    /\ EnqIdle
    /\ notify = [e |-> NewEnqueue,
                 pc |-> [c \in Calls |-> "idle"],
                 id |-> [c \in Calls |-> 0],
                 call |-> [c \in Calls |-> NoNotifyCall],
                 issued |-> {},
                 submitted |-> <<>>]
    /\ certauth = <<>>
    /\ run = <<>>
    /\ server = <<>>
    /\ ctxCall = <<>>
    /\ seq = <<>>

NotifyFrame ==
    UNCHANGED <<tally, cmdVars, tallyVars, hubVars, dmVars, enqVars,
                certauth, run, server, ctxCall, seq>>

\* call c evaluates e.ider.ID()
NotifyGenerateID(c) ==
    /\ notify.pc[c] = "idle"
    /\ \E id \in IderID(notify.issued) :
          notify' = [notify EXCEPT !.pc[c] = "made", !.id[c] = id,
                                   !.issued = @ \cup {id},
                                   !.call[c] = NoNotifyCall]
    /\ NotifyFrame

\* call c builds the command with its identifier and enqueues it
NotifyMakeAndEnqueue(c) ==
    /\ notify.pc[c] = "made"
    /\ \E makeErr \in {NilErr, <<"make command failure">>}, ans \in NotifyAnswers :
          LET ctx == IF c = 1 THEN "ctx1" ELSE "ctx2"
              ids == <<"e1", "e2">>
              tokensJSON == "tokens"
              out == EnqueueDMCommand(notify.e, ctx, ids, tokensJSON, notify.id[c],
                                      makeErr, ans)
          IN  notify' = [notify EXCEPT
                            !.pc[c] = "done",
                            !.call[c] = [ctx |-> ctx, ids |-> ids,
                                         tokensJSON |-> tokensJSON,
                                         makeErr |-> makeErr, ans |-> ans,
                                         out |-> out],
                            !.submitted = @ \o out.calls]
    /\ NotifyFrame

\* call c has returned; its caller may call again
NotifyReturn(c) ==
    /\ notify.pc[c] = "done"
    /\ notify' = [notify EXCEPT !.pc[c] = "idle"]
    /\ NotifyFrame

NextNotify ==
    \/ \E c \in Calls : NotifyGenerateID(c)
    \/ \E c \in Calls : NotifyMakeAndEnqueue(c)
    \/ \E c \in Calls : NotifyReturn(c)

SpecNotify == InitNotify /\ [][NextNotify]_vars

\* the identifier a submitted command carries
CommandIDOf(call) == call.rawCommand[2]

\* C21: every EnqueueDMCommand call builds its command with the identifier
\* generated for that call and hands it to the collaborator exactly as
\* Enqueue does (one RawCommandEnqueueWithPush call with the caller's
\* context and ids and the enqueuer's noPush, the error wrapped or the
\* result's error returned); over all calls, concurrent ones included, no
\* two commands handed to the collaborator carry the same identifier; a call
\* whose command could not be built returns an error that wraps the failure
\* and makes no enqueue call.
C21_FreshCommandIDs ==
    /\ \A i, j \in DOMAIN notify.submitted :
          i # j => CommandIDOf(notify.submitted[i]) # CommandIDOf(notify.submitted[j])
    /\ \A c \in Calls :
          notify.pc[c] = "done" =>
              LET k == notify.call[c]
              IN  IF k.makeErr # NilErr
                  THEN /\ k.out.calls = <<>>
                       /\ k.out.err = <<"making command">> \o k.makeErr
                  ELSE /\ k.out.calls =
                            <<RawCommandEnqueueWithPushCall(
                                k.ctx, <<"DeclarativeManagement", notify.id[c],
                                         k.tokensJSON>>, k.ids, notify.e.noPush)>>
                       /\ k.out = [Enqueue(notify.e, k.ctx, k.ids,
                                           k.out.calls[1].rawCommand, k.ans)
                                     EXCEPT !.idCalls = 1]
                       /\ \E i \in DOMAIN notify.submitted :
                             notify.submitted[i] = k.out.calls[1]
                       /\ k.out.err =
                            (IF k.ans.err # NilErr
                             THEN <<"raw push enqueue">> \o k.ans.err
                             ELSE k.ans.r.Error)

\* C21 witness: two calls in flight together both handed their command
\* over, with different identifiers
C21_Witness ==
    /\ notify.pc = [c \in Calls |-> "done"]
    /\ \A c \in Calls : Len(notify.call[c].out.calls) = 1
    /\ Len(notify.submitted) >= 2
    /\ notify.id[1] # notify.id[2]

\* C21, the failure: a call whose command could not be built made no call
C21_MakeFailureReached ==
    \E c \in Calls :
        /\ notify.pc[c] = "done"
        /\ notify.call[c].makeErr # NilErr
        /\ notify.call[c].out.calls = <<>>
        /\ notify.call[c].out.err # NilErr

-----------------------------------------------------------------------------
(* SpecRunner: a caller starts the engine runner in the background while   *)
(* requests are being handled                                              *)

Runners == 1..MaxRunners

\* the hubs New builds without the workflow engine, with it, and with its
\* worker: nh.runner is set only in the last
RunnerConfigs ==
    { newConfig, WithWF(newConfig, TRUE),
      WithWFWorker(WithWF(newConfig, TRUE), TRUE) }

\* what runner.Run(ctx) may return: nil, an internal error, or, once ctx is
\* cancelled, the context's error
RunResults(cancelled) ==
    {NilErr, <<"worker failure">>} \cup
        (IF cancelled THEN {<<"context canceled">>} ELSE {})

\* the goroutine's tail: what it logs when Run returned err
RunnerExitLog(err) ==
    IF err # NilErr
    THEN [level |-> "info", msg |-> "engine worker stopped", err |-> err]
    ELSE [level |-> "debug", msg |-> "engine worker stopped", err |-> NilErr]

\* a slip in GoStartEngineRunner: the caller waits for Run to return
MayReturnAfterRun(goroutine) == goroutine = "stopped"

\* the go statement does not wait for the goroutine it spawns
MayReturn(goroutine) == TRUE

InitRunner ==
    /\ svc = HubCMDService
    /\ tally = [id \in IDs |-> 0]
    /\ lastCall = NoCall
    /\ TallyIdle
    /\ HubIdle
    /\ DMIdle
    /\ EnqIdle
    /\ notify = <<>>
    /\ certauth = <<>>
    /\ \E c \in RunnerConfigs :
          run = [runner |-> New(c, NilErr).hub[1].runner,
                 pc |-> "ready",
                 spawned |-> 0,
                 g |-> [i \in Runners |-> "none"],
                 cancelled |-> FALSE,
                 logs |-> <<>>,
                 req |-> NoCall]
    /\ server = <<>>
    /\ ctxCall = <<>>
    /\ seq = <<>>

RunnerFrame ==
    UNCHANGED <<tally, cmdVars, tallyVars, hubVars, dmVars, enqVars,
                notify, certauth, server, ctxCall, seq>>

\* the caller calls nh.GoStartEngineRunner(ctx)
RunnerCall ==
    /\ run.pc \in {"ready", "returned"}
    /\ run.spawned < MaxRunners
    /\ run' = [run EXCEPT !.pc = "called"]
    /\ RunnerFrame

\* if nh.runner == nil { return }
RunnerNoop ==
    /\ run.pc = "called"
    /\ ~run.runner
    /\ run' = [run EXCEPT !.pc = "returned"]
    /\ RunnerFrame

\* go func(runner, logger) {...}(nh.runner, nh.logger)
RunnerSpawn ==
    /\ run.pc = "called"
    /\ run.runner
    /\ run' = [run EXCEPT !.pc = "spawned",
                          !.spawned = @ + 1,
                          !.g[run.spawned + 1] = "running"]
    /\ RunnerFrame

\* GoStartEngineRunner returns
RunnerReturn ==
    /\ run.pc = "spawned"
    /\ MayReturn(run.g[run.spawned])
    /\ run' = [run EXCEPT !.pc = "returned"]
    /\ RunnerFrame

\* the context given to the runners is cancelled
RunnerCancel ==
    /\ ~run.cancelled
    /\ run' = [run EXCEPT !.cancelled = TRUE]
    /\ RunnerFrame

\* in goroutine i, runner.Run(ctx) returns and the goroutine logs and ends
RunnerStop(i) ==
    /\ run.g[i] = "running"
    /\ \E err \in RunResults(run.cancelled) :
          run' = [run EXCEPT !.g[i] = "stopped",
                             !.logs = Append(@, RunnerExitLog(err))]
    /\ RunnerFrame

\* the hub's adapter handles a request
RunnerRequest ==
    /\ \E r \in {[ID |-> "e1", Params |-> "p1", ctx |-> "ctx1"]},
          results \in CommandResults, engErr \in CheckinEngineErrs :
          run' = [run EXCEPT !.req =
                     Call("CommandAndReportResults", r, results, NoTally, TRUE,
                          engErr, CommandAndReportResults(svc, r, results, engErr))]
    /\ RunnerFrame

NextRunner ==
    \/ RunnerCall
    \/ RunnerNoop
    \/ RunnerSpawn
    \/ RunnerReturn
    \/ RunnerCancel
    \/ \E i \in Runners : RunnerStop(i)
    \/ RunnerRequest

\* the caller's steps are taken when they can be: GoStartEngineRunner has no
\* blocking operation. Nothing is assumed of the runner: it may run forever.
SpecRunner ==
    /\ InitRunner
    /\ [][NextRunner]_vars
    /\ WF_vars(RunnerNoop)
    /\ WF_vars(RunnerSpawn)
    /\ WF_vars(RunnerReturn)

\* the number of goroutines in state st
RunnersIn(st) == Cardinality({ i \in Runners : run.g[i] = st })

\* a runner goroutine ends in this step
RunnerStops == \E i \in Runners : run.g[i] = "running" /\ run'.g[i] = "stopped"

\* C23: starting the engine runner never blocks or fails the caller: every
\* call of GoStartEngineRunner returns, whether or not any runner ever
\* stops; without a runner configured the call spawns and logs nothing; when a
\* runner terminates, by cancellation or by an internal error, the step only
\* adds one "engine worker stopped" log entry (with the error if there is
\* one): the caller's position, the context and the outcome of the
\* request-handling calls stay as they were, and each request's outcome is
\* what its handler computes from the request alone.
C23_RunnerNeverBlocksOrFails ==
    /\ [](/\ ~run.runner => (run.spawned = 0 /\ run.logs = <<>>
                             /\ RunnersIn("none") = MaxRunners)
          /\ Len(run.logs) = RunnersIn("stopped")
          /\ \A k \in DOMAIN run.logs :
                /\ run.logs[k].msg = "engine worker stopped"
                /\ run.logs[k].level = (IF run.logs[k].err # NilErr
                                        THEN "info" ELSE "debug")
          /\ run.req # NoCall =>
                run.req.out = CommandAndReportResults(svc, run.req.r, run.req.m,
                                                      run.req.engErr))
    /\ [][RunnerStops =>
            /\ run'.pc = run.pc
            /\ run'.req = run.req
            /\ run'.cancelled = run.cancelled
            /\ run'.runner = run.runner
            /\ run'.spawned = run.spawned
            /\ Len(run'.logs) = Len(run.logs) + 1]_vars
    /\ ((run.pc = "called") ~> (run.pc = "returned"))
    /\ ((run.pc = "spawned") ~> (run.pc = "returned"))

\* C23 witness: GoStartEngineRunner has returned while the runner it spawned
\* is still running, and a request was handled meanwhile
C23_Witness ==
    /\ run.pc = "returned"
    /\ run.runner
    /\ run.g[1] = "running"
    /\ run.req # NoCall

\* C23, the terminations: a runner stopped on an internal error before any
\* cancellation; a runner stopped after cancellation; no runner configured
C23_InternalErrorReached ==
    /\ ~run.cancelled
    /\ run.g[1] = "stopped"
    /\ run.logs[1] = RunnerExitLog(<<"worker failure">>)
    /\ run.req # NoCall
    /\ run.req.out.err = NilErr

C23_CancelledReached ==
    /\ run.cancelled
    /\ run.g[1] = "stopped"
    /\ run.logs[1].err = <<"context canceled">>

C23_NoRunnerReached ==
    /\ ~run.runner
    /\ run.pc = "returned"

-----------------------------------------------------------------------------
(* SpecServer: the reference server. main reads its flags, gives New the   *)
(* options they select, mounts the hub's handlers and serves requests      *)

\* an option main hands to New
Option(name, arg) == [name |-> name, arg |-> <<arg>>]

\* the flags of main that decide the hub's handlers and the routes
ServerFlags ==
    [checkin : BOOLEAN, retro : BOOLEAN, dump : BOOLEAN, migration : BOOLEAN,
     certHeader : {"", "X-Client-Cert"}, apiKey : {"", "key"}]

\* main: the options selected by flags fl, in the order main appends them
\* (the file storage backend provides the DM and workflow stores)
HubOpts(fl) ==
    <<Option("WithLogger", TRUE), Option("WithRootPEMs", "hello"),
      Option("WithIntermediatePEMs", ""), Option("WithAPNSPush", TRUE),
      Option("WithUADefault", FALSE)>>
    \o (IF fl.retro THEN <<Option("WithAllowRetroactive", TRUE)>> ELSE <<>>)
    \o (IF fl.checkin
        THEN <<Option("WithCheckinHandler", TRUE),
               Option("WithoutServerCombinedHandler", TRUE)>>
        ELSE <<>>)
    \o <<Option("WithDM", TRUE), Option("WithDMStatusStore", TRUE),
         Option("WithWF", TRUE), Option("WithWFEvents", TRUE)>>
    \o (IF fl.certHeader # ""
        THEN <<Option("WithCertHeader", fl.certHeader)>>
        ELSE <<Option("WithMdmSignature", TRUE)>>)
    \o (IF fl.dump THEN <<Option("WithDumpToStdout", TRUE)>> ELSE <<>>)
    \o (IF fl.migration THEN <<Option("WithMigration", TRUE)>> ELSE <<>>)
    \o <<Option("WithWFWorkerDuration", TRUE), Option("WithWFWorker", TRUE)>>

\* one option run on config c; the options that set nothing the hub's
\* handlers depend on leave c as it is
ApplyOption(c, o) ==
    CASE o.name = "WithRootPEMs" -> WithRootPEMs(c, o.arg[1])
      [] o.name = "WithIntermediatePEMs" -> WithIntermediatePEMs(c, o.arg[1])
      [] o.name = "WithAllowRetroactive" -> WithAllowRetroactive(c)
      [] o.name = "WithCheckinHandler" -> WithCheckinHandler(c)
      [] o.name = "WithoutServerCombinedHandler" -> WithoutServerCombinedHandler(c)
      [] o.name = "WithDM" -> WithDM(c, o.arg[1])
      [] o.name = "WithWF" -> WithWF(c, o.arg[1])
      [] o.name = "WithCertHeader" -> WithCertHeader(c, o.arg[1])
      [] o.name = "WithMdmSignature" -> WithMdmSignature(c)
      [] o.name = "WithDumpToStdout" -> WithDump(c, TRUE)
      [] o.name = "WithMigration" -> WithMigration(c)
      [] o.name = "WithWFWorker" -> WithWFWorker(c, o.arg[1])
      [] OTHER -> c

\* config.runOptions: opts run on c in order
RECURSIVE runOptions(_, _)
runOptions(c, opts) ==
    IF opts = <<>> THEN c
    ELSE runOptions(ApplyOption(c, Head(opts)), Tail(opts))

\* nanolibhttp.NewSimpleBasicAuthHandler(h, "nanohub", apiKey, "NanoHUB API")
BasicAuth(apiKey, h) == <<HTTPLayer("SimpleBasicAuthHandler", apiKey, <<>>)>> \o h

\* one route of the server's mux
Route(path, handler) == [path |-> path, handler |-> handler]

\* a slip in mounting /migration: mounted without the API authentication,
\* whenever the hub has the handler
MigrationRoutesUnauthenticated(fl, nh) ==
    IF nh.migration # NilHandler
    THEN {Route("/migration", nh.migration)}
    ELSE {}

\* main: the /migration route, inside the API-key block
MigrationRoutes(fl, nh) ==
    IF fl.apiKey # "" /\ nh.migration # NilHandler
    THEN {Route("/migration", BasicAuth(fl.apiKey, nh.migration))}
    ELSE {}

\* main: the routes mounted for flags fl on hub nh
Routes(fl, nh) ==
    { Route("/version", <<HTTPLayer("JSONVersionHandler", "", <<>>)>>),
      Route("/mdm", nh.nanomdm) }
    \cup (IF nh.checkin # NilHandler THEN {Route("/checkin", nh.checkin)} ELSE {})
    \cup (IF fl.apiKey # ""
          THEN { Route(api, BasicAuth(fl.apiKey, <<HTTPLayer("APIv1", api, <<>>)>>)) :
                   api \in {"/api/v1/nanomdm/", "/api/v1/nanocmd/", "/api/v1/ddm/"} }
          ELSE {})
    \cup MigrationRoutes(fl, nh)

\* the stack mounted at path, or none
Mounted(routes, path) == { rt.handler : rt \in { x \in routes : x.path = path } }

\* serving a request down a handler stack: basic authentication answers 401
\* unless the request's credential is its key; the handler at the bottom
\* answers otherwise
RECURSIVE ServeHTTP(_, _)
ServeHTTP(stack, cred) ==
    IF stack = <<>> THEN "none"
    ELSE IF Head(stack).type = "SimpleBasicAuthHandler" /\ cred # Head(stack).arg
    THEN "401"
    ELSE IF Len(stack) = 1 THEN Head(stack).arg
    ELSE ServeHTTP(Tail(stack), cred)

\* the mux: 404 for a path with no route
MuxServe(routes, path, cred) ==
    IF Mounted(routes, path) = {} THEN "404"
    ELSE ServeHTTP(CHOOSE h \in Mounted(routes, path) : TRUE, cred)

InitServer ==
    /\ svc = HubCMDService
    /\ tally = [id \in IDs |-> 0]
    /\ lastCall = NoCall
    /\ TallyIdle
    /\ HubIdle
    /\ DMIdle
    /\ EnqIdle
    /\ notify = <<>>
    /\ certauth = <<>>
    /\ run = <<>>
    /\ \E fl \in ServerFlags :
          server = [flags |-> fl, pc |-> "parsed", config |-> newConfig,
                    nh |-> <<>>, routes |-> {}, req |-> <<>>]
    /\ ctxCall = <<>>
    /\ seq = <<>>

ServerFrame ==
    UNCHANGED <<tally, cmdVars, tallyVars, hubVars, dmVars, enqVars,
                notify, certauth, run, ctxCall, seq>>

\* main up to ListenAndServe: New with the selected options; exit on its
\* error, else mount the routes
ServerMain ==
    /\ server.pc = "parsed"
    /\ \E extErr \in {NilErr, <<"creating collaborator">>} :
          LET c == runOptions(newConfig, HubOpts(server.flags))
              n == New(c, extErr)
          IN  server' =
                IF n.err # NilErr
                THEN [server EXCEPT !.pc = "exited", !.config = c]
                ELSE [server EXCEPT !.pc = "serving", !.config = c,
                                    !.nh = n.hub,
                                    !.routes = Routes(server.flags, n.hub[1])]
    /\ ServerFrame

\* a request arrives at path with a basic-auth credential (or none)
ServerRequest ==
    /\ server.pc = "serving"
    /\ \E path \in {"/mdm", "/checkin", "/migration"}, cred \in {"", "key", "wrong"} :
          server' = [server EXCEPT !.req =
                        <<[path |-> path, cred |-> cred,
                           response |-> MuxServe(server.routes, path, cred)]>>]
    /\ ServerFrame

NextServer ==
    \/ ServerMain
    \/ ServerRequest

SpecServer == InitServer /\ [][NextServer]_vars

\* the certificate middleware of hub.authMW
CertMiddleware ==
    {"CertExtractMdmSignatureMiddleware", "CertExtractPEMHeaderMiddleware",
     "CertExtractTLSMiddleware", "CertVerifyMiddleware"}

\* the middleware types in a handler stack
LayerTypes(stack) == { stack[i].type : i \in DOMAIN stack }

\* C24: in the reference server, whatever its flags: the hub's migration
\* handler, when there is one, has none of the certificate-extraction or
\* certificate-verification middleware, which wraps the server handler and
\* the check-in handler; /migration is mounted exactly when the migration
\* flag and a non-empty API key are both set, and what is mounted is the
\* migration handler wrapped in the basic-auth middleware with that key; a
\* request to /migration reaches the migration handler only with the API key
\* as its credential, and is otherwise answered 401 or 404.
C24_MigrationBehindAPIKey ==
    server.pc = "serving" =>
        LET nh == server.nh[1]
            fl == server.flags
        IN  /\ (nh.migration # NilHandler) <=> fl.migration
            /\ LayerTypes(nh.migration) \cap CertMiddleware = {}
            /\ "CertVerifyMiddleware" \in LayerTypes(nh.nanomdm)
            /\ nh.checkin # NilHandler =>
                  "CertVerifyMiddleware" \in LayerTypes(nh.checkin)
            /\ (Mounted(server.routes, "/migration") # {})
                  <=> (fl.migration /\ fl.apiKey # "")
            /\ \A h \in Mounted(server.routes, "/migration") :
                  /\ h[1].type = "SimpleBasicAuthHandler"
                  /\ h[1].arg = fl.apiKey
                  /\ Tail(h) = nh.migration
                  /\ LayerTypes(h) \cap CertMiddleware = {}
            /\ (server.req # <<>> /\ server.req[1].path = "/migration") =>
                  IF fl.migration /\ fl.apiKey # "" /\ server.req[1].cred = fl.apiKey
                  THEN server.req[1].response = "migration"
                  ELSE IF fl.migration /\ fl.apiKey # ""
                  THEN server.req[1].response = "401"
                  ELSE server.req[1].response = "404"

\* C24 witness: with -migration and -api-key, /migration was mounted behind
\* basic authentication and a request without the key was answered 401
C24_Witness ==
    /\ server.pc = "serving"
    /\ server.flags.migration
    /\ server.flags.apiKey = "key"
    /\ Mounted(server.routes, "/migration") # {}
    /\ server.req # <<>>
    /\ server.req[1].path = "/migration"
    /\ server.req[1].cred = ""
    /\ server.req[1].response = "401"

\* C24, the other cases: the key was accepted; -migration without -api-key
\* leaves /migration unmounted although the hub has the handler
C24_KeyAcceptedReached ==
    /\ server.pc = "serving"
    /\ server.req # <<>>
    /\ server.req[1].path = "/migration"
    /\ server.req[1].response = "migration"

C24_NoKeyReached ==
    /\ server.pc = "serving"
    /\ server.flags.migration
    /\ server.flags.apiKey = ""
    /\ server.nh[1].migration # NilHandler
    /\ server.req # <<>>
    /\ server.req[1].path = "/migration"
    /\ server.req[1].response = "404"

-----------------------------------------------------------------------------
(* SpecSeq: TokenUpdate check-ins pass, one after the other, through the   *)
(* fan-out of an assembled hub: each service of the list in turn           *)

\* hub configs with the workflow engine: alone, with the sets remover, with
\* webhooks, with both
SeqConfigs ==
    { WithWF(newConfig, TRUE),
      WithDMSetRemover(WithDM(WithWF(newConfig, TRUE), TRUE)),
      WithWebhook(WithWF(newConfig, TRUE), "url1"),
      WithWF(WithWebhook(WithDMSetRemover(WithDM(newConfig, TRUE)), "url1"), TRUE) }

\* the list the hub's multi-service fans out to
FanOut(c) == ServiceChain(c)[Len(ServiceChain(c))].svcs

\* what the log keeps of the adapter's handling of one TokenUpdate
SeqEntry(out) ==
    [forwarded |-> out.engineCalls # <<>>,
     enrolling |-> out.engineCalls # <<>> /\ out.engineCalls[1].msg.Enrolling]

InitSeq ==
    /\ svc = HubCMDService
    /\ tally = [id \in IDs |-> 0]
    /\ lastCall = NoCall
    /\ TallyIdle
    /\ HubIdle
    /\ DMIdle
    /\ EnqIdle
    /\ notify = <<>>
    /\ certauth = <<>>
    /\ run = <<>>
    /\ server = <<>>
    /\ ctxCall = <<>>
    /\ \E c \in SeqConfigs :
          seq = [config |-> c, list |-> FanOut(c), adapter |-> HubAdapter(c),
                 pc |-> 0, cur |-> NoRequest, total |-> 0,
                 log |-> [id \in IDs |-> <<>>], last |-> NoCall]

SeqFrame ==
    UNCHANGED <<cmdVars, tallyVars, hubVars, dmVars, enqVars,
                notify, certauth, run, server, ctxCall>>

\* the service the current check-in is at
SeqAt == seq.list[seq.pc]

\* the check-in moves on to the next service of the list, or is done
SeqAdvance == IF seq.pc = Len(seq.list) THEN 0 ELSE seq.pc + 1

\* a TokenUpdate arrives when none is being handled
SeqStart ==
    /\ seq.pc = 0
    /\ seq.total < MaxTokenUpdates
    /\ \E r \in Requests :
          seq' = [seq EXCEPT !.pc = 1, !.cur = r, !.total = @ + 1]
    /\ UNCHANGED tally
    /\ SeqFrame

\* the core service stores the TokenUpdate: the store raises the tally
SeqCore ==
    /\ seq.pc # 0
    /\ SeqAt.type = "nanomdm"
    /\ tally' = [tally EXCEPT ![seq.cur.ID] = @ + 1]
    /\ seq' = [seq EXCEPT !.pc = SeqAdvance]
    /\ SeqFrame

\* the adapter's TokenUpdate
SeqAdapter ==
    /\ seq.pc # 0
    /\ SeqAt.type = "cmdservice"
    /\ \E tallyRes \in TallyAnswers(seq.cur.ID), valid \in BOOLEAN,
          engErr \in CheckinEngineErrs :
          LET out == TokenUpdate(seq.adapter, seq.cur, TokenUpdateMessage, tallyRes,
                                 valid, engErr)
          IN  seq' = [seq EXCEPT
                        !.pc = SeqAdvance,
                        !.log[seq.cur.ID] = Append(@, SeqEntry(out)),
                        !.last = Call("TokenUpdate", seq.cur, TokenUpdateMessage,
                                      tallyRes, valid, engErr, out)]
    /\ UNCHANGED tally
    /\ SeqFrame

\* the sets remover or a webhook takes the TokenUpdate: nothing the adapter
\* reads changes
SeqOther ==
    /\ seq.pc # 0
    /\ SeqAt.type \in {"setsremover", "webhook"}
    /\ seq' = [seq EXCEPT !.pc = SeqAdvance]
    /\ UNCHANGED tally
    /\ SeqFrame

NextSeq ==
    \/ SeqStart
    \/ SeqCore
    \/ SeqAdapter
    \/ SeqOther

SpecSeq == InitSeq /\ [][NextSeq]_vars

\* C30: in the assembled hub the command-workflow adapter is directly second
\* in the fan-out list, after the core service and before the sets remover
\* and the webhooks. So for TokenUpdates handled one after the other, the
\* core raising the tally before the adapter reads it, starting from tally
\* 0: of the TokenUpdates of one enrollment, the events forwarded with
\* Enrolling are exactly those of the first, and no later one; each
\* TokenUpdate is forwarded unless the tally retrieval failed or, for the
\* first, the wrapper was not valid; the adapter reads tally k at the k-th.
C30_FirstTokenUpdateEnrolls ==
    /\ Len(seq.list) >= 2
    /\ seq.list[1].type = "nanomdm"
    /\ seq.list[2].type = "cmdservice"
    /\ \A i \in 3..Len(seq.list) : seq.list[i].type \in {"setsremover", "webhook"}
    /\ \A id \in IDs :
          \A k \in DOMAIN seq.log[id] :
              /\ seq.log[id][k].forwarded => (seq.log[id][k].enrolling <=> k = 1)
              /\ ~seq.log[id][k].forwarded => ~seq.log[id][k].enrolling
    /\ seq.last # NoCall =>
          LET id == seq.last.r.ID
              k  == Len(seq.log[id])
          IN  /\ seq.log[id][k] = SeqEntry(seq.last.out)
              /\ seq.last.tallyRes.err = NilErr =>
                    /\ seq.last.tallyRes.tally = k
                    /\ (k # 1 \/ seq.last.valid) => seq.log[id][k].forwarded

\* C30 witness: three TokenUpdates of one enrollment went through the hub
\* one after the other: the first was forwarded with Enrolling, the second
\* and the third without
C30_Witness ==
    \E id \in IDs :
        /\ Len(seq.log[id]) = MaxTokenUpdates
        /\ seq.log[id][1].forwarded /\ seq.log[id][1].enrolling
        /\ \A k \in 2..MaxTokenUpdates :
              seq.log[id][k].forwarded /\ ~seq.log[id][k].enrolling
        /\ Len(seq.list) = 4

-----------------------------------------------------------------------------
(* SpecCtx: calls into the three adapters, keeping of each call the        *)
(* caller's context and the context handed to every collaborator           *)

\* a context with no mux and no status report attached
PlainCtx(ctx) == [base |-> ctx, mux |-> "none", status |-> "none"]

\* the collaborator calls of a list, each by its name and the context it got
PassedPlain(calls) ==
    [i \in DOMAIN calls |-> [fn |-> calls[i].fn, ctx |-> PlainCtx(calls[i].ctx)]]

Passed(calls) == [i \in DOMAIN calls |-> [fn |-> calls[i].fn, ctx |-> calls[i].ctx]]

\* one call into this layer
CtxCall(layer, fn, caller, passed, err) ==
    [layer |-> layer, fn |-> fn, caller |-> caller, passed |-> passed, err |-> err]

InitCtx ==
    /\ svc = HubCMDService
    /\ tally = [id \in IDs |-> 0]
    /\ lastCall = NoCall
    /\ TallyIdle
    /\ HubIdle
    /\ DMIdle
    /\ EnqIdle
    /\ notify = <<>>
    /\ certauth = <<>>
    /\ run = <<>>
    /\ server = <<>>
    /\ ctxCall = CtxCall("none", "none", PlainCtx("none"), <<>>, <<>>)
    /\ seq = <<>>

CtxFrame ==
    UNCHANGED <<tally, cmdVars, tallyVars, hubVars, dmVars, enqVars,
                notify, certauth, run, server, seq>>

\* a check-in handled by the cmdservice adapter
CtxCheckin ==
    /\ \E s \in CMDServices, r \in Requests, fn \in {"Authenticate", "TokenUpdate", "CheckOut"},
          raw \in Raws, tallyRes \in { [tally |-> 1, err |-> NilErr],
                                       [tally |-> 0, err |-> <<"tally store failure">>] },
          engErr \in CheckinEngineErrs :
          LET m   == [MessageType |-> fn, Raw |-> raw, Status |-> "none",
                      CommandUUID |-> "none"]
              out == IF fn = "Authenticate" THEN Authenticate(s, r, m, engErr)
                     ELSE IF fn = "CheckOut" THEN CheckOut(s, r, m, engErr)
                     ELSE TokenUpdate(s, r, m, tallyRes, TRUE, engErr)
          IN  ctxCall' = CtxCall("cmdservice", fn, PlainCtx(r.ctx),
                                 PassedPlain(out.storeCalls \o out.engineCalls),
                                 out.err)
    /\ CtxFrame

\* a command report handled by the cmdservice adapter
CtxCommandReport ==
    /\ \E s \in CMDServices, r \in Requests, results \in CommandResults,
          engErr \in EngineErrs :
          LET out == CommandAndReportResults(s, r, results, engErr)
          IN  ctxCall' = CtxCall("cmdservice", results.Status, PlainCtx(r.ctx),
                                 PassedPlain(out.engineCalls), out.err)
    /\ CtxFrame

\* a DeclarativeManagement check-in handled by the DM adapter
CtxDeclarativeManagement ==
    /\ \E d \in DMAdapters, r \in DMRequests({TestBody}),
          e \in {Str("status"), Str("tokens"), Str("declaration-items"),
                 <<"declaration", "/", "profile", "/", "abc123">>},
          ans \in RetrievalAnswers, storeErr \in Failures("store failure") :
          LET msg == [Endpoint |-> e, Data |-> TestBody]
              out == DeclarativeManagement(
                         d, Ptr(r), Ptr(msg), Nil,
                         IF d.statusIDFn THEN [id |-> "testStatusID", err |-> Nil]
                         ELSE NoStatusID,
                         IF d.statusStore THEN storeErr ELSE Nil, ans)
          IN  ctxCall' = CtxCall("ddmadapter", e[1], CtxOf(r.ctx),
                                 Passed(out.idFnCalls \o out.storeCalls),
                                 IF out.err = Nil THEN <<>> ELSE <<"failed">>)
    /\ CtxFrame

\* a call of the enqueuer
CtxEnqueue ==
    /\ \E e \in Enqueues, ctx \in Contexts, fn \in {"Enqueue", "Push", "EnqueueDMCommand"},
          ids \in {<<"e1">>, <<"e1", "e2">>}, makeErr \in {NilErr, <<"make command failure">>},
          ans \in EnqueueAnswers :
          LET out == IF fn = "Enqueue" THEN Enqueue(e, ctx, ids, <<"cmd1">>, ans)
                     ELSE IF fn = "Push" THEN Push(e, ctx, ids, ans)
                     ELSE EnqueueDMCommand(e, ctx, ids, "tokens", "uuid1", makeErr, ans)
          IN  ctxCall' = CtxCall("enqueue", fn, PlainCtx(ctx), PassedPlain(out.calls),
                                 out.err)
    /\ CtxFrame

NextCtx ==
    \/ CtxCheckin
    \/ CtxCommandReport
    \/ CtxDeclarativeManagement
    \/ CtxEnqueue

SpecCtx == InitCtx /\ [][NextCtx]_vars

\* C26 as claimed: on every call this layer delegates to a collaborator, the
\* context passed is the caller's context, unchanged.
C26_ContextPassedUnchanged ==
    \A i \in DOMAIN ctxCall.passed : ctxCall.passed[i].ctx = ctxCall.caller

\* C26 amended: every context handed to a collaborator is the caller's or
\* derived from it, so it carries the caller's cancellation. Engine events,
\* the tally retrieval, the declaration, declaration-items and tokens
\* retrievals, enqueue-with-push and the status ID function get the caller's
\* context itself. The status store gets the caller's context with the mux
\* and the status report of the call attached where the caller's context had
\* none, and unchanged where it had both.
C26_ContextDerivedFromCallers ==
    \A i \in DOMAIN ctxCall.passed :
        LET p == ctxCall.passed[i]
        IN  /\ p.ctx.base = ctxCall.caller.base
            /\ p.fn # "StoreDeclarationStatus" => p.ctx = ctxCall.caller
            /\ p.fn = "StoreDeclarationStatus" =>
                  /\ p.ctx.mux = (IF ctxCall.caller.mux = "none" THEN "adapter"
                                  ELSE ctxCall.caller.mux)
                  /\ p.ctx.status = (IF ctxCall.caller.status = "none" THEN "adapter"
                                     ELSE ctxCall.caller.status)

\* C26 witness: a status report was stored under a context that is not the
\* caller's own (the caller's carried no mux) but has its cancellation
C26_Witness ==
    /\ ctxCall.layer = "ddmadapter"
    /\ ctxCall.caller.mux = "none"
    /\ \E i \in DOMAIN ctxCall.passed :
          /\ ctxCall.passed[i].fn = "StoreDeclarationStatus"
          /\ ctxCall.passed[i].ctx # ctxCall.caller
          /\ ctxCall.passed[i].ctx.base = ctxCall.caller.base

\* C26, the unchanged cases: a status stored under the caller's own context
\* (it carried a mux and a report); a tally retrieval and an engine event
C26_CallerObjectsReached ==
    /\ ctxCall.layer = "ddmadapter"
    /\ ctxCall.caller.mux = "caller"
    /\ \E i \in DOMAIN ctxCall.passed :
          /\ ctxCall.passed[i].fn = "StoreDeclarationStatus"
          /\ ctxCall.passed[i].ctx = ctxCall.caller

C26_TallyAndEventReached ==
    /\ Len(ctxCall.passed) = 2
    /\ ctxCall.passed[1].fn = "RetrieveTokenUpdateTally"
    /\ ctxCall.passed[2].fn = "MDMCheckinEvent"
    /\ ctxCall.passed[2].ctx = ctxCall.caller

-----------------------------------------------------------------------------
(* SpecCertAuth: requests pass the certificate-authorization wrapper of an *)
(* assembled hub, which keeps the certificate association of each          *)
(* enrollment                                                              *)

\* the certificates a request may present
Certs == {"certA", "certB"}

NoCert == "none"

\* the certauth layer of the chain New assembles for config c
CertAuthLayer(c) ==
    LET chain == ServiceChain(c)
    IN  chain[CHOOSE i \in DOMAIN chain : chain[i].type = "certauth"]

\* the wrapper's decision on a request that is not an Authenticate, from
\* enrollment with association before, presenting cert: allowed as it
\* matches; allowed retroactively, creating the association, when there is
\* none and the option is on; denied otherwise
CertAuthDecision(retro, before, cert) ==
    IF before = cert
    THEN [allowed |-> TRUE, path |-> "match", after |-> before]
    ELSE IF retro /\ before = NoCert
    THEN [allowed |-> TRUE, path |-> "retroactive", after |-> cert]
    ELSE [allowed |-> FALSE, path |-> "denied", after |-> before]

\* one request through the wrapper
CertAuthRequest(id, kind, cert, before, d) ==
    [id |-> id, kind |-> kind, cert |-> cert, before |-> before,
     after |-> d.after, allowed |-> d.allowed, path |-> d.path]

InitCertAuth ==
    /\ svc = HubCMDService
    /\ tally = [id \in IDs |-> 0]
    /\ lastCall = NoCall
    /\ TallyIdle
    /\ HubIdle
    /\ DMIdle
    /\ EnqIdle
    /\ notify = <<>>
    /\ \E c \in {newConfig, WithAllowRetroactive(newConfig),
                 WithDump(WithAllowRetroactive(WithWF(newConfig, TRUE)), TRUE)} :
          certauth = [retro |-> CertAuthLayer(c).arg = "retroactive",
                      given |-> c.certAuthOpts # <<>>,
                      assoc |-> [id \in IDs |-> NoCert],
                      last |-> CertAuthRequest("none", "none", NoCert, NoCert,
                                               [allowed |-> FALSE, path |-> "none",
                                                after |-> NoCert])]
    /\ run = <<>>
    /\ server = <<>>
    /\ ctxCall = <<>>
    /\ seq = <<>>

CertAuthFrame ==
    UNCHANGED <<tally, cmdVars, tallyVars, hubVars, dmVars, enqVars,
                notify, run, server, ctxCall, seq>>

\* an Authenticate message sets up the association of its enrollment; for an
\* enrollment that has one already (a re-enrollment) the wrapper either
\* replaces it or keeps it
CertAuthAuthenticate ==
    /\ \E id \in IDs, cert \in Certs :
          \E after \in (IF certauth.assoc[id] = NoCert THEN {cert}
                        ELSE {cert, certauth.assoc[id]}) :
              certauth' =
                [certauth EXCEPT
                    !.assoc[id] = after,
                    !.last = CertAuthRequest(id, "Authenticate", cert,
                                             certauth.assoc[id],
                                             [allowed |-> TRUE, path |-> "authenticate",
                                              after |-> after])]
    /\ CertAuthFrame

\* any other request
CertAuthOther ==
    /\ \E id \in IDs, cert \in Certs :
          LET d == CertAuthDecision(certauth.retro, certauth.assoc[id], cert)
          IN  certauth' =
                [certauth EXCEPT
                    !.assoc[id] = d.after,
                    !.last = CertAuthRequest(id, "Other", cert, certauth.assoc[id], d)]
    /\ CertAuthFrame

NextCertAuth ==
    \/ CertAuthAuthenticate
    \/ CertAuthOther

SpecCertAuth == InitCertAuth /\ [][NextCertAuth]_vars

\* C22: an enrollment has no stored association or one. The retroactive
\* option is on exactly when WithAllowRetroactive was given to New. With it
\* on, a request from an enrollment that has no association is let through
\* and creates one; whatever the option, a request that is not an
\* Authenticate never changes an association that exists, so the retroactive
\* path never overwrites one. With it off, a request from an enrollment
\* without an association is denied and creates none.
C22_RetroactiveNeverOverwrites ==
    /\ [](/\ certauth.retro <=> certauth.given
          /\ \A id \in IDs : certauth.assoc[id] \in Certs \cup {NoCert}
          /\ certauth.last.path = "retroactive" =>
                /\ certauth.retro
                /\ certauth.last.before = NoCert
                /\ certauth.last.after = certauth.last.cert
          /\ (certauth.last.kind = "Other" /\ certauth.last.before # NoCert) =>
                certauth.last.after = certauth.last.before
          /\ (certauth.last.kind = "Other" /\ certauth.last.before = NoCert) =>
                IF certauth.retro
                THEN /\ certauth.last.allowed
                     /\ certauth.last.after = certauth.last.cert
                ELSE /\ ~certauth.last.allowed
                     /\ certauth.last.after = NoCert
          /\ certauth.last.id \in IDs =>
                certauth.assoc[certauth.last.id] = certauth.last.after)
    /\ [][\A id \in IDs :
            (certauth.assoc[id] # NoCert /\ certauth'.assoc[id] # certauth.assoc[id])
                => certauth'.last.kind = "Authenticate"]_vars

\* C22 witness: with the retroactive option on, an enrollment that already
\* had an association made a request with another certificate: it was
\* denied and the association kept
C22_Witness ==
    /\ certauth.retro
    /\ certauth.last.kind = "Other"
    /\ certauth.last.before = "certA"
    /\ certauth.last.cert = "certB"
    /\ ~certauth.last.allowed
    /\ certauth.assoc[certauth.last.id] = "certA"

\* C22, the other cases: an association created retroactively; a request
\* denied with the option off
C22_CreatedReached ==
    /\ certauth.retro
    /\ certauth.last.path = "retroactive"
    /\ certauth.assoc[certauth.last.id] = certauth.last.cert

C22_DeniedReached ==
    /\ ~certauth.retro
    /\ certauth.last.kind = "Other"
    /\ certauth.last.before = NoCert
    /\ ~certauth.last.allowed
    /\ certauth.assoc[certauth.last.id] = NoCert

-----------------------------------------------------------------------------
(* Further properties of the cmdservice handlers (Spec) *)

\* the tags cmdmdm.NewCheckinFromMessageType knows
KnownMessageTypes == {"Authenticate", "TokenUpdate", "CheckOut"}

\* the last call's message has a known tag and bytes that decode
LastMessageParses ==
    /\ lastCall.m.MessageType \in KnownMessageTypes
    /\ lastCall.m.Raw = "plist"

\* C25: for an Authenticate or CheckOut check-in: if the message-type tag is
\* unrecognized or the raw bytes do not decode, the call fails and no event
\* reaches the engine; otherwise exactly one check-in event is forwarded,
\* carrying the request's enrollment ID, the parsed message and the request's
\* parameters, and an engine error is returned wrapped; the tally store is
\* never consulted. In every call of any handler, every event forwarded to the
\* engine carries the request's parameters and enrollment ID.
C25_CheckinForwarding ==
    /\ lastCall.fn \in {"Authenticate", "CheckOut"} =>
          LET out == lastCall.out
          IN  /\ out.storeCalls = <<>>
              /\ IF ~LastMessageParses
                 THEN /\ out.err # NilErr
                      /\ out.engineCalls = <<>>
                 ELSE /\ Len(out.engineCalls) = 1
                      /\ out.engineCalls[1].fn = "MDMCheckinEvent"
                      /\ out.engineCalls[1].id = lastCall.r.ID
                      /\ out.engineCalls[1].msg.type = lastCall.m.MessageType
                      /\ out.engineCalls[1].msg.raw = lastCall.m.Raw
                      /\ ~out.engineCalls[1].msg.Enrolling
                      /\ out.engineCalls[1].mdmCtx = [Params |-> lastCall.r.Params]
                      /\ IF lastCall.engErr # NilErr
                         THEN /\ out.err # NilErr
                              /\ out.err # lastCall.engErr
                              /\ Tail(out.err) = lastCall.engErr
                         ELSE out.err = NilErr
    /\ \A i \in DOMAIN lastCall.out.engineCalls :
          /\ lastCall.out.engineCalls[i].mdmCtx = [Params |-> lastCall.r.Params]
          /\ lastCall.out.engineCalls[i].id = lastCall.r.ID

\* C25 witness: a CheckOut whose engine call failed forwarded its one event
\* with the request's parameters and returned the engine's error wrapped
C25_Witness ==
    /\ lastCall.fn = "CheckOut"
    /\ LastMessageParses
    /\ lastCall.engErr # NilErr
    /\ Len(lastCall.out.engineCalls) = 1
    /\ lastCall.out.engineCalls[1].mdmCtx.Params = lastCall.r.Params
    /\ Tail(lastCall.out.err) = lastCall.engErr

\* C25, the failing case: an Authenticate with an unknown tag reached no engine
C25_ParseFailureReached ==
    /\ lastCall.fn = "Authenticate"
    /\ lastCall.m.MessageType = "Bogus"
    /\ lastCall.out.err # NilErr
    /\ lastCall.out.engineCalls = <<>>

\* C25, the other handlers: an Idle report's event carried the parameters
C25_IdleParamsReached ==
    /\ lastCall.fn = "CommandAndReportResults"
    /\ lastCall.m.Status = "Idle"
    /\ Len(lastCall.out.engineCalls) = 1
    /\ lastCall.out.engineCalls[1].mdmCtx.Params = "p2"

\* the last call was a TokenUpdate whose message parses to a TokenUpdate
ParsedTokenUpdate ==
    /\ lastCall.fn = "TokenUpdate"
    /\ lastCall.m.MessageType = "TokenUpdate"
    /\ lastCall.m.Raw = "plist"

\* C29: in a TokenUpdate call with a tally store: if retrieving the tally
\* fails, or the tally is 1 and the Enrolling wrapper is not valid, the call
\* returns an error and no check-in event reaches the engine. Without a tally
\* store the tally is never retrieved and the forwarded event never carries
\* Enrolling, whatever the enrollment's tally in the store is.
C29_TokenUpdateFailureAndNoStore ==
    lastCall.fn = "TokenUpdate" =>
        LET out == lastCall.out
            t   == lastCall.tallyRes
        IN  /\ (ParsedTokenUpdate /\ svc.store /\ t.err # NilErr) =>
                  /\ out.err # NilErr
                  /\ Tail(out.err) = t.err
                  /\ out.engineCalls = <<>>
            /\ (/\ ParsedTokenUpdate
                /\ svc.store
                /\ t.err = NilErr
                /\ t.tally = 1
                /\ ~lastCall.valid) =>
                  /\ out.err # NilErr
                  /\ out.engineCalls = <<>>
            /\ ~svc.store =>
                  /\ out.storeCalls = <<>>
                  /\ \A i \in DOMAIN out.engineCalls :
                        /\ ~out.engineCalls[i].msg.Enrolling
                        /\ out.engineCalls[i].msg.type # "TokenUpdateEnrolling"
                  /\ ParsedTokenUpdate =>
                        /\ Len(out.engineCalls) = 1
                        /\ out.engineCalls[1].msg.type = "TokenUpdate"

\* C29 witness: with no tally store, the first TokenUpdate of an enrollment
\* (tally 1 in the store) was forwarded without Enrolling and without a
\* retrieval
C29_Witness ==
    /\ ParsedTokenUpdate
    /\ ~svc.store
    /\ tally[lastCall.r.ID] = 1
    /\ lastCall.out.storeCalls = <<>>
    /\ Len(lastCall.out.engineCalls) = 1
    /\ ~lastCall.out.engineCalls[1].msg.Enrolling

\* C29, the failures: the retrieval failed; the wrapper was not valid
C29_RetrievalFailureReached ==
    /\ ParsedTokenUpdate
    /\ svc.store
    /\ lastCall.tallyRes.err # NilErr
    /\ lastCall.out.engineCalls = <<>>
    /\ lastCall.out.err = Errorf("retrieving token update tally", lastCall.tallyRes.err)

C29_InvalidWrapperReached ==
    /\ ParsedTokenUpdate
    /\ svc.store
    /\ lastCall.tallyRes.tally = 1
    /\ ~lastCall.valid
    /\ lastCall.out.engineCalls = <<>>
    /\ lastCall.out.err = <<"invalid token update wrapper">>

-----------------------------------------------------------------------------
(* Further properties of New and its options (SpecHub) *)

ErrMutuallyExclusive ==
    <<"signature header and Mdm-Signature are mutually exclusive">>

\* C27: the outcome of giving both extraction options depends on their
\* order. WithMdmSignature and then WithCertHeader leaves Mdm-Signature mode
\* off, so validation does not report a conflict, New (given nothing else
\* and with working collaborators) builds a hub, and every hub built extracts
\* the certificate from the header. WithCertHeader and then WithMdmSignature
\* leaves both set, so New fails. On every config the two options applied in
\* the two orders give different configs.
C27_ExtractionOptionsDoNotCommute ==
    /\ authOrder = <<"WithMdmSignature", "WithCertHeader">> =>
          /\ ~config.authConfig.mdmSignature
          /\ config.authConfig.signatureHeader # ""
          /\ validate(config) # ErrMutuallyExclusive
          /\ Called => hub[1].err # ErrMutuallyExclusive
          /\ (Called /\ given = {"WithMdmSignature", "WithCertHeader"}) =>
                (Built \/ hub[1].err = <<"creating collaborator">>)
          /\ Built =>
                /\ hub[1].hub[1].nanomdm[1].type = "CertExtractPEMHeaderMiddleware"
                /\ hub[1].hub[1].nanomdm[1].arg = config.authConfig.signatureHeader
    /\ authOrder = <<"WithCertHeader", "WithMdmSignature">> =>
          /\ config.authConfig.mdmSignature
          /\ config.authConfig.signatureHeader # ""
          /\ validate(config) # NilErr
          /\ Called => Failed
    /\ WithCertHeader(WithMdmSignature(config), "X-Client-Cert").authConfig
          # WithMdmSignature(WithCertHeader(config, "X-Client-Cert")).authConfig
    /\ validate(WithCertHeader(WithMdmSignature(newConfig), "X-Client-Cert")) = NilErr
    /\ validate(WithMdmSignature(WithCertHeader(newConfig, "X-Client-Cert")))
          = ErrMutuallyExclusive

\* C27 witness: New built a hub from WithMdmSignature followed by
\* WithCertHeader, and the hub extracts the certificate from the header
C27_Witness ==
    /\ Built
    /\ authOrder = <<"WithMdmSignature", "WithCertHeader">>
    /\ hub[1].hub[1].nanomdm[1].type = "CertExtractPEMHeaderMiddleware"

\* C27, the other order: New refused the same two options
C27_OtherOrderReached ==
    /\ Failed
    /\ given = {"WithMdmSignature", "WithCertHeader"}
    /\ authOrder = <<"WithCertHeader", "WithMdmSignature">>
    /\ hub[1].err = ErrMutuallyExclusive

-----------------------------------------------------------------------------
(* Properties of a constructed enqueuer (SpecEnqueueNew) *)

\* C28: for the enqueuer enqueue.New returns, the push-suppression flag is
\* false in every reachable state: every call made to the collaborator, from
\* Enqueue, Push or EnqueueDMCommand, passes noPush = FALSE, every Enqueue
\* call makes such a call, and Push never takes its no-op branch (it always
\* makes its one call, with a nil command).
C28_NoPushNeverSet ==
    /\ enq.noPush = FALSE
    /\ enqCall # <<>> =>
          LET out == enqCall[1].out
          IN  /\ \A i \in DOMAIN out.calls : out.calls[i].noPush = FALSE
              /\ enqCall[1].fn = "Enqueue" =>
                    /\ Len(out.calls) = 1
                    /\ out.calls[1].noPush = FALSE
              /\ enqCall[1].fn = "Push" =>
                    /\ Len(out.calls) = 1
                    /\ out.calls[1].rawCommand = NilCommand
                    /\ out.calls[1].ids = enqCall[1].ids

\* C28 witness: a Push on the constructed enqueuer reached the collaborator
\* with noPush = FALSE
C28_Witness ==
    /\ enq = NewEnqueue
    /\ enqCall # <<>>
    /\ enqCall[1].fn = "Push"
    /\ Len(enqCall[1].out.calls) = 1
    /\ enqCall[1].out.calls[1].noPush = FALSE

=============================================================================
